---- MODULE Spec2Model ----
(***************************************************************************)
(* Purchase-request workflow of src/index.tsx: browser clients (Main/App   *)
(* and its pages) acting on a remote document tree (/users, /compras), an  *)
(* attribute document store (invoices) and a notification relay.           *)
(*                                                                         *)
(* Every asynchronous handler is split at its awaited store call: an       *)
(* issuing action builds the payload and puts the call in flight, a        *)
(* completing action applies it at the store (or fails it) and runs the    *)
(* handler's continuation.                                                 *)
(***************************************************************************)
EXTENDS Bags, FiniteSets, Integers, Sequences, TLC

(* ------------------------------ bounds -------------------------------- *)
\* number of requests the store may hold
MaxReq == 2
\* number of timestamps new Date() hands out (one per issued write)
MaxTime == 4
\* number of failed HTTP calls the environment may inject
MaxFaults == 1
\* number of role changes made from the admin panel
MaxRoleChanges == 1
\* number of pages of an uploaded invoice
MaxPages == 2
\* number of pending and of approved requests in a tree the counts are taken of
MaxCount == 2
\* number of characters of an e-mail typed in the checks of the identifier
MaxEmailLen == 2
\* the largest amount typed into a value field, in centavos
MaxCents == 100000000

(* ----------------------------- universes ------------------------------ *)
\* browser sessions (one Main component each)
Clients == {"c1", "c2"}
\* records under /users, named by their uid
Users == {"ana", "bia", "caio", "duda"}
\* keys the store generates for POST /compras.json
ReqIds == 1..MaxReq
Roles == {"admin", "comprador", "aprovador", "user"}
\* a user record without a role field
NoRole == "absent"
\* /users as the deployment starts with it
InitialRole == [u \in Users |->
    CASE u = "ana" -> "admin"
      [] u = "bia" -> "aprovador"
      [] u = "caio" -> "comprador"
      [] OTHER -> NoRole]
StatusSet == {"pendente", "aprovado", "reprovado", "comprado"}
Views == {"formulario", "setor_compras", "aprovar_compras", "dashboards", "admin"}

VARIABLES
    users,          \* /users: uid -> stored role (or NoRole)
    accounts,       \* /users: uid -> whether the record exists, its passwordHash and isVerified
    store,          \* /compras: generated key -> request document
    invoices,       \* attribute store, invoices/{id}
    now,            \* the clock behind new Date()
    faults,         \* failed HTTP calls so far
    roleChanges,    \* role changes made so far
    notifs,         \* payloads handed to sendNotificationRequest (a bag)
    relay,          \* the fetches of sendNotificationRequest: awaited, delivered, lost
    listing,        \* request id -> state of its getApproverContacts call
    session,        \* client -> Main.currentUser
    screen,         \* client -> the Auth component: view, typed e-mail, error
    storage,        \* client -> sessionStorage of its tab
    isLoading,      \* client -> Main.isLoading
    view,           \* client -> App.activeView
    formData,       \* client -> PurchaseForm.formData
    modalData,      \* client -> PurchaseConfirmationModal.purchaseData
    dashboard,      \* client -> DashboardsPage: isLoading, error, stats, chartData
    submitStatus,   \* client -> PurchaseForm.submitStatus
    requests,       \* client -> the mounted page's requests list
    pageError,      \* client -> the mounted page's error
    pc,             \* client -> the store call the client awaits
    badges,         \* client -> App's sidebar counts and whether fetchCounts is in flight
    popup           \* client -> the last alert or preview window its page opened

storeVars == <<users, accounts, store, invoices, now, faults, roleChanges, notifs, relay, listing>>
clientVars == <<session, screen, storage, isLoading, view, formData, modalData, dashboard, submitStatus, requests, pageError, pc, badges, popup>>
vars == <<users, accounts, store, invoices, now, faults, roleChanges, notifs, relay, listing,
          session, screen, storage, isLoading, view, formData, modalData, dashboard, submitStatus, requests, pageError, pc, badges, popup>>

(* ------------------------------ helpers ------------------------------- *)
\* the empty JSON object
EmptyDoc == [k \in {} |-> ""]
\* a store that keeps the first decision: a decision written to a request
\* that is no longer pendente is dropped
PatchFirstDecision(doc, payload) ==
    IF /\ "status" \in DOMAIN payload
       /\ payload.status \in {"aprovado", "reprovado"}
       /\ doc.status # "pendente"
    THEN doc
    ELSE payload @@ doc
\* PATCH merges the payload's fields into the stored document
Patch(doc, payload) == payload @@ doc
\* {...a, ...b}: later spreads win
Spread(a, b) == b @@ a
Idle == [op |-> "idle"]
NoPopup == [kind |-> "none"]
\* window.alert(message)
Alert(message, detail) == [kind |-> "alert", message |-> message, detail |-> detail]
NoSession == [uid |-> "", role |-> ""]
NoStatus == [type |-> "none", message |-> "", errors |-> <<>>]
Opt(missing, label) == IF missing THEN <<label>> ELSE <<>>
Range(s) == {s[i] : i \in DOMAIN s}

(* ------------------------- notificationService ------------------------ *)
\* sendNotificationRequest is called with each of the payloads and returns
\* at its awaited fetch
Send(payloads) ==
    /\ notifs' = notifs (+) SetToBag(payloads)
    /\ relay' = [relay EXCEPT !.outbox = @ (+) SetToBag(payloads)]

(* ------------------------ authService (users) ------------------------- *)
\* Text is a sequence of one-character strings where its characters matter
UpperCase == <<"A", "B", "C", "D", "E", "F", "G", "H", "I", "J", "K", "L", "M",
               "N", "O", "P", "Q", "R", "S", "T", "U", "V", "W", "X", "Y", "Z">>
LowerCase == <<"a", "b", "c", "d", "e", "f", "g", "h", "i", "j", "k", "l", "m",
               "n", "o", "p", "q", "r", "s", "t", "u", "v", "w", "x", "y", "z">>
\* String.prototype.toLowerCase, one character
LowerChar(ch) ==
    IF \E i \in DOMAIN UpperCase : UpperCase[i] = ch
    THEN LowerCase[CHOOSE i \in DOMAIN UpperCase : UpperCase[i] = ch]
    ELSE ch

\* authService.sanitizeEmail
SanitizeEmail(email) ==
    [i \in 1..Len(email) |->
        LET ch == LowerChar(email[i])
        IN CASE ch = "." -> ","
             [] ch \in {"#", "$", "[", "]"} -> "_"
             [] OTHER -> ch]

\* the text of each uid
UidText == [u \in Users |->
    CASE u = "ana" -> <<"a", "n", "a">>
      [] u = "bia" -> <<"b", "i", "a">>
      [] u = "caio" -> <<"c", "a", "i", "o">>
      [] OTHER -> <<"d", "u", "d", "a">>]

\* the record /users/{sanitizeEmail(email)} an e-mail leads to
UserPath(email) == CHOOSE u \in Users : UidText[u] = SanitizeEmail(email)

\* what is typed into the e-mail field of the Auth screen
TypedEmails == {<<"a", "n", "a">>, <<"B", "i", "a">>, <<"d", "u", "d", "a">>,
                <<"D", "u", "d", "a">>}
\* what is typed into the password field
Passwords == {"segredo", "outra"}
\* sha256(password): distinct passwords have distinct hashes
Sha256(password) == <<"sha256", password>>

\* a /users record that does not exist
NoAccount == [exists |-> FALSE, passwordHash |-> <<>>, isVerified |-> FALSE]
\* the records of the deployment: verified accounts with one password
InitialAccounts ==
    [u \in Users |-> [exists |-> TRUE, passwordHash |-> Sha256("segredo"),
                      isVerified |-> TRUE]]

\* error messages, as sequences of words
BadCredentials == <<"E-mail", "ou", "senha", "incorretos.">>
NotVerified == <<"Seu", "e-mail", "ainda", "nao", "foi", "verificado.", "Por", "favor,",
                 "verifique", "sua", "caixa", "de", "entrada.">>
EmailInUse == <<"Este", "e-mail", "ja", "esta", "em", "uso.">>
CreateFailed == <<"Falha", "ao", "criar", "a", "conta.">>
ServerError == <<"Erro", "de", "comunicacao", "com", "o", "servidor.">>
\* the text Auth.handleSubmit's catch looks for
NotVerifiedMark == <<"nao", "verificado">>

\* String.prototype.toLowerCase on the words of the messages above
ToLowerCase(text) ==
    [i \in 1..Len(text) |->
        CASE text[i] = "E-mail" -> "e-mail"
          [] text[i] = "Seu" -> "seu"
          [] text[i] = "Por" -> "por"
          [] text[i] = "Este" -> "este"
          [] text[i] = "Falha" -> "falha"
          [] text[i] = "Erro" -> "erro"
          [] OTHER -> text[i]]

\* String.prototype.includes, on words
Includes(text, part) ==
    \E i \in 0..(Len(text) - Len(part)) : \A j \in 1..Len(part) : text[i + j] = part[j]

\* authService.signIn: the role of the returned user object
SignInRole(stored) == IF stored = NoRole THEN "user" ELSE stored

\* a contact list that takes only the admins
ApproverContactsAdminsOnly(us) == {u \in Users : us[u] = "admin"}

\* authService.getApproverContacts on a successful read of /users
ApproverContacts(us) ==
    {u \in Users : LET role == IF us[u] = NoRole THEN "user" ELSE us[u]
                   IN role = "admin" \/ role = "aprovador"}

(* ---------------------- Sidebar / App navigation ---------------------- *)
\* a sidebar that shows every role the items of the comprador
ReachableViewsBuyerItems(role) ==
    CASE role = "admin" -> {"formulario", "setor_compras", "aprovar_compras", "dashboards", "admin"}
      [] role \in {"comprador", "aprovador", "user"} -> {"formulario", "setor_compras"}
      [] OTHER -> {}

\* Sidebar.visibleNavItems plus the admin link of the settings popup
ReachableViews(role) ==
    CASE role = "admin" -> {"formulario", "setor_compras", "aprovar_compras", "dashboards", "admin"}
      [] role = "comprador" -> {"formulario", "setor_compras"}
      [] role = "aprovador" -> {"formulario", "aprovar_compras"}
      [] role = "user" -> {"formulario"}
      [] OTHER -> {}

(* --------------------------- databaseService -------------------------- *)
\* databaseService.getPurchaseRequests: key -> {id: key, ...data[key]}
GetPurchaseRequests(st) == [id \in DOMAIN st |-> Spread([id |-> id], st[id])]

\* SetorComprasPage.fetchRequests keeps aprovado and comprado
RelevantRequests(list) ==
    [id \in {i \in DOMAIN list : list[i].status = "aprovado" \/ list[i].status = "comprado"}
        |-> list[id]]

\* a payload that stamps approvals only
UpdatePayloadNoRejectStamp(status, justification, t) ==
    IF status = "aprovado"
    THEN [status |-> status, approvedAt |-> t]
    ELSE IF status = "reprovado"
    THEN [status |-> status,
          justification |-> IF justification = "undefined" THEN "" ELSE justification]
    ELSE [status |-> status]

\* a payload that stamps approvedAt on every decision
UpdatePayloadStampsApproval(status, justification, t) ==
    IF status = "reprovado"
    THEN [status |-> status, approvedAt |-> t, rejectedAt |-> t, justification |-> justification]
    ELSE [status |-> status, approvedAt |-> t]

\* a payload that carries a justification on every decision
UpdatePayloadAlwaysJustified(status, justification, t) ==
    IF status = "aprovado"
    THEN [status |-> status, approvedAt |-> t, justification |-> ""]
    ELSE [status |-> status, rejectedAt |-> t,
          justification |-> IF justification = "undefined" THEN "" ELSE justification]

\* databaseService.updatePurchaseRequestStatus: the PATCH payload
UpdatePayload(status, justification, t) ==
    IF status = "aprovado"
    THEN [status |-> status, approvedAt |-> t]
    ELSE IF status = "reprovado"
    THEN [status |-> status, rejectedAt |-> t,
          justification |-> IF justification = "undefined" THEN "" ELSE justification]
    ELSE [status |-> status]

\* a payload whose fulfilment fields bring a status of their own
ConfirmPayloadDataStatus(purchaseData, t) ==
    [status |-> "a_caminho"] @@ purchaseData @@ [status |-> "comprado", purchasedAt |-> t]

\* a payload without the purchase time
ConfirmPayloadNoStamp(purchaseData, t) ==
    Spread([status |-> "comprado"], purchaseData)

\* databaseService.confirmPurchase: the PATCH payload
ConfirmPayload(purchaseData, t) ==
    Spread([status |-> "comprado", purchasedAt |-> t], purchaseData)

(* ----------------------------- PurchaseForm --------------------------- *)
\* initialFormData with the user effect applied (nome, email from the user)
InitialForm(u) ==
    [nome |-> u, email |-> u, unidade |-> "", prazo |-> "nao", prazoDataHora |-> "",
     urgencia |-> "", tipo |-> "", descricaoServico |-> "", querIndicar |-> "nao",
     nomeIndicado |-> "", nomeProduto |-> "", quantidadeProduto |-> "",
     querLink |-> "nao", linkProduto |-> ""]

\* the deadline radio and its conditional datetime input (shown while
\* prazo = sim, cleared by handleChange when prazo goes back to nao)
PrazoStates ==
    {[prazo |-> "nao", prazoDataHora |-> ""]}
    \cup {[prazo |-> "sim", prazoDataHora |-> d] : d \in {"", "2025-01-10T09:00"}}

\* the category select and the inputs shown for it (handleChange clears all
\* of them when tipo changes, and the conditional one when its radio is nao)
TipoStates ==
    {[tipo |-> "", descricaoServico |-> "", querIndicar |-> "nao", nomeIndicado |-> "",
      nomeProduto |-> "", quantidadeProduto |-> "", querLink |-> "nao", linkProduto |-> ""]}
    \cup {[tipo |-> "servico", descricaoServico |-> d, querIndicar |-> q[1], nomeIndicado |-> q[2],
           nomeProduto |-> "", quantidadeProduto |-> "", querLink |-> "nao", linkProduto |-> ""] :
             d \in {"", "Pintura"}, q \in {<<"nao", "">>, <<"sim", "">>, <<"sim", "Joao">>}}
    \cup {[tipo |-> "produto", descricaoServico |-> "", querIndicar |-> "nao", nomeIndicado |-> "",
           nomeProduto |-> n, quantidadeProduto |-> k, querLink |-> q[1], linkProduto |-> q[2]] :
             n \in {"", "Papel A4"}, k \in {"", "3"},
             q \in {<<"nao", "">>, <<"sim", "">>, <<"sim", "https://loja/papel">>}}

\* the form states handleChange and the conditional inputs can produce
FormStates(u) ==
    {Spread(Spread([nome |-> u, email |-> u, unidade |-> un, urgencia |-> ur], p), t) :
        un \in {"", "Unidade 1"}, ur \in {"", "Alto"}, p \in PrazoStates, t \in TipoStates}

\* a validation that never looks at the referral name
ValidateNoReferral(f) ==
    Opt(f.unidade = "", "Unidade")
    \o Opt(f.urgencia = "", "Grau de urgencia")
    \o Opt(f.tipo = "", "Tipo")
    \o Opt(f.prazo = "sim" /\ f.prazoDataHora = "", "Data e Hora do Prazo")
    \o (IF f.tipo = "servico"
        THEN Opt(f.descricaoServico = "", "Descricao do servico")
        ELSE <<>>)
    \o (IF f.tipo = "produto"
        THEN Opt(f.nomeProduto = "", "Produto (nome)")
             \o Opt(f.quantidadeProduto = "", "Quantidade")
             \o Opt(f.querLink = "sim" /\ f.linkProduto = "", "Link do produto")
        ELSE <<>>)

\* PurchaseForm.handleSubmit: the errors array
Validate(f) ==
    Opt(f.unidade = "", "Unidade")
    \o Opt(f.urgencia = "", "Grau de urgencia")
    \o Opt(f.tipo = "", "Tipo")
    \o Opt(f.prazo = "sim" /\ f.prazoDataHora = "", "Data e Hora do Prazo")
    \o (IF f.tipo = "servico"
        THEN Opt(f.descricaoServico = "", "Descricao do servico")
             \o Opt(f.querIndicar = "sim" /\ f.nomeIndicado = "", "Nome de quem quer indicar")
        ELSE <<>>)
    \o (IF f.tipo = "produto"
        THEN Opt(f.nomeProduto = "", "Produto (nome)")
             \o Opt(f.quantidadeProduto = "", "Quantidade")
             \o Opt(f.querLink = "sim" /\ f.linkProduto = "", "Link do produto")
        ELSE <<>>)

\* a request built with the form spread last and no creation time
RequestDataNoDate(f, uid, t) ==
    Spread([requesterUid |-> uid, status |-> "pendente"], f)

\* PurchaseForm.handleSubmit: requestData
RequestData(f, uid, t) ==
    Spread(f, [requesterUid |-> uid, createdAt |-> t, status |-> "pendente"])

(* --------------------------------- App -------------------------------- *)
\* counts that take every request still open as awaiting approval
DerivedCountsOpen(list) ==
    [pendingApprovals |-> Cardinality({i \in DOMAIN list :
                                         list[i].status \in {"pendente", "aprovado"}}),
     pendingPurchases |-> Cardinality({i \in DOMAIN list : list[i].status = "aprovado"})]

\* App.fetchCounts: the two counts of a fetched list
DerivedCounts(list) ==
    [pendingApprovals |-> Cardinality({i \in DOMAIN list : list[i].status = "pendente"}),
     pendingPurchases |-> Cardinality({i \in DOMAIN list : list[i].status = "aprovado"})]

\* the counts of an App that has just mounted; its mount effect calls
\* fetchCounts (no App is mounted on the login screen)
MountedBadges(mounted) ==
    [pendingApprovalsCount |-> 0, pendingPurchasesCount |-> 0, fetching |-> mounted]

\* the handler's onFormSubmit / onStatusUpdate / onPurchaseConfirmed callback:
\* fetchCounts is called
CallFetchCounts(b) == [b EXCEPT !.fetching = TRUE]

(* ------------------------------- Init --------------------------------- *)
\* Main.currentUser of a client signed in as u while /users is us
SessionOf(us, u) == IF u = "" THEN NoSession ELSE [uid |-> u, role |-> SignInRole(us[u])]

\* JSON.stringify / JSON.parse of the user object
Stringify(user) == [json |-> user]
Parse(text) == text.json

\* sessionStorage without a 'user' item
NoStorage == [k \in {} |-> Stringify(NoSession)]
\* sessionStorage after Main.handleLogin(user)
SetUserItem(user) == [k \in {"user"} |-> Stringify(user)]
\* sessionStorage of a tab whose Main.currentUser is `user`
StorageOf(user) == IF user = NoSession THEN NoStorage ELSE SetUserItem(user)

\* the Auth component as it mounts
FreshAuth == [view |-> "login", email |-> <<>>, error |-> <<>>]

\* DashboardsPage as it mounts: loading, every figure zero, no bars
InitialDashboard ==
    [isLoading |-> TRUE, error |-> FALSE,
     stats |-> [totalSpent |-> 0, totalRequests |-> 0, completedPurchases |-> 0,
                rejectedRequests |-> 0],
     chartData |-> <<>>]

\* the deployment with /compras holding `st` and the clients signed in as
\* `who` says ("" for a client on the login screen), each App on 'formulario'
Boot(who, st) ==
    /\ users = InitialRole
    /\ accounts = InitialAccounts
    /\ store = st
    /\ invoices = [id \in {} |-> EmptyDoc]
    /\ now = 1
    /\ faults = 0
    /\ roleChanges = 0
    /\ notifs = EmptyBag
    /\ relay = [outbox |-> EmptyBag, delivered |-> EmptyBag, lost |-> EmptyBag]
    /\ listing = [id \in DOMAIN st |-> "done"]
    /\ session = [c \in Clients |-> SessionOf(InitialRole, who[c])]
    /\ screen = [c \in Clients |-> FreshAuth]
    /\ storage = [c \in Clients |-> StorageOf(SessionOf(InitialRole, who[c]))]
    /\ isLoading = [c \in Clients |-> FALSE]
    /\ view = [c \in Clients |-> "formulario"]
    /\ formData = [c \in Clients |-> InitialForm(who[c])]
    /\ modalData = [c \in Clients |-> EmptyDoc]
    /\ dashboard = [c \in Clients |-> InitialDashboard]
    /\ submitStatus = [c \in Clients |-> NoStatus]
    /\ requests = [c \in Clients |-> [id \in {} |-> EmptyDoc]]
    /\ pageError = [c \in Clients |-> FALSE]
    /\ pc = [c \in Clients |-> Idle]
    /\ badges = [c \in Clients |-> MountedBadges(who[c] # "")]
    /\ popup = [c \in Clients |-> NoPopup]

\* an empty /compras tree
NoRequests == [id \in {} |-> EmptyDoc]

\* a request that went through the whole lifecycle before the clock started:
\* submitted by duda, approved, bought
OldRequest ==
    Patch(Patch(RequestData(Spread(InitialForm("duda"),
                                   [unidade |-> "Unidade 2", urgencia |-> "Baixo",
                                    tipo |-> "servico", descricaoServico |-> "Limpeza"]),
                            "duda", 0),
                UpdatePayload("aprovado", "", 0)),
          ConfirmPayload([valorServico |-> 900, dataRealizacao |-> "2024-12-20"], 0))

\* a request submitted by duda before the clock started, in the given status
RequestIn(status) ==
    LET submitted == RequestData(Spread(InitialForm("duda"),
                                        [unidade |-> "Unidade 2", urgencia |-> "Baixo",
                                         tipo |-> "servico", descricaoServico |-> "Limpeza"]),
                                 "duda", 0)
    IN CASE status = "pendente" -> submitted
         [] status = "aprovado" -> Patch(submitted, UpdatePayload("aprovado", "undefined", 0))
         [] status = "reprovado" -> Patch(submitted, UpdatePayload("reprovado", "", 0))
         [] OTHER -> OldRequest

\* a tree of p pending, a approved, r rejected and k bought requests
Collection(p, a, r, k) ==
    [i \in 1..(p + a + r + k) |->
        RequestIn(IF i <= p THEN "pendente"
                  ELSE IF i <= p + a THEN "aprovado"
                  ELSE IF i <= p + a + r THEN "reprovado"
                  ELSE "comprado")]

\* the trees the counts are taken of
Collections ==
    {Collection(p, a, r, k) : p \in 0..MaxCount, a \in 0..MaxCount, r \in 0..1, k \in 0..1}
    \cup {Collection(3, 2, 1, 4)}

\* every client on the login screen, nothing requested yet
Init == Boot([c \in Clients |-> ""], NoRequests)

(* --------------------------- Main / App ------------------------------- *)
\* a page that has just been mounted, before its fetch
FreshPage(c, uid) ==
    /\ formData' = [formData EXCEPT ![c] = InitialForm(uid)]
    /\ modalData' = [modalData EXCEPT ![c] = EmptyDoc]
    /\ dashboard' = [dashboard EXCEPT ![c] = InitialDashboard]
    /\ submitStatus' = [submitStatus EXCEPT ![c] = NoStatus]

\* Main.handleLogin(user): App mounts on 'formulario' and starts fetchCounts
HandleLogin(c, user) ==
    /\ session' = [session EXCEPT ![c] = user]
    /\ storage' = [storage EXCEPT ![c] = SetUserItem(user)]
    /\ view' = [view EXCEPT ![c] = "formulario"]
    /\ FreshPage(c, user.uid)
    /\ requests' = [requests EXCEPT ![c] = [id \in {} |-> EmptyDoc]]
    /\ pageError' = [pageError EXCEPT ![c] = FALSE]
    /\ badges' = [badges EXCEPT ![c] = MountedBadges(TRUE)]

\* the login form is submitted: Auth.handleSubmit up to the awaited read of
\* authService.signIn
IssueSignIn(c, email, password) ==
    /\ session[c] = NoSession
    /\ ~isLoading[c]
    /\ pc[c] = Idle
    /\ screen[c].view = "login"
    /\ screen' = [screen EXCEPT ![c] = [@ EXCEPT !.email = email, !.error = <<>>]]
    /\ pc' = [pc EXCEPT ![c] = [op |-> "signin", email |-> email, password |-> password]]
    /\ UNCHANGED <<storeVars, session, storage, isLoading, view, formData, modalData, dashboard, submitStatus,
                   requests, pageError, badges, popup>>

\* Auth.handleSubmit's catch after a failed sign-in
SignInFailed(c, message) ==
    /\ screen' = [screen EXCEPT ![c] =
          [@ EXCEPT !.error = message,
                    !.view = IF Includes(ToLowerCase(message), NotVerifiedMark)
                             THEN "verify" ELSE @]]
    /\ UNCHANGED <<users, session, storage, view, formData, modalData, dashboard, submitStatus, requests,
                   pageError, badges>>

\* a sign-in that does not look at isVerified
SignInDoneUnverified(c) ==
    /\ pc[c].op = "signin"
    /\ pc' = [pc EXCEPT ![c] = Idle]
    /\ LET u == UserPath(pc[c].email)
       IN \/ /\ faults < MaxFaults
             /\ faults' = faults + 1
             /\ SignInFailed(c, BadCredentials)
          \/ /\ faults' = faults
             /\ IF ~accounts[u].exists \/ accounts[u].passwordHash # Sha256(pc[c].password)
                THEN SignInFailed(c, BadCredentials)
                ELSE /\ HandleLogin(c, [uid |-> u, role |-> SignInRole(users[u])])
                     /\ UNCHANGED <<users, screen>>
    /\ UNCHANGED <<accounts, store, invoices, now, roleChanges, notifs, relay, listing,
                   isLoading, popup>>

\* the read of authService.signIn answers; the rest of signIn and of
\* Auth.handleSubmit. A record without a role is patched to role 'user'
\* (fire and forget; the patch is applied at once or never).
SignInDone(c) ==
    /\ pc[c].op = "signin"
    /\ pc' = [pc EXCEPT ![c] = Idle]
    /\ LET u == UserPath(pc[c].email)
       IN \/ /\ faults < MaxFaults
             /\ faults' = faults + 1
             /\ SignInFailed(c, BadCredentials)
          \/ /\ faults' = faults
             /\ IF ~accounts[u].exists \/ accounts[u].passwordHash # Sha256(pc[c].password)
                THEN SignInFailed(c, BadCredentials)
                ELSE IF ~accounts[u].isVerified
                THEN SignInFailed(c, NotVerified)
                ELSE /\ HandleLogin(c, [uid |-> u, role |-> SignInRole(users[u])])
                     /\ screen' = screen
                     /\ \/ users' = [users EXCEPT ![u] = SignInRole(@)]
                        \/ users' = users
    /\ UNCHANGED <<accounts, store, invoices, now, roleChanges, notifs, relay, listing,
                   isLoading, popup>>

\* the characters typed in the checks of the identifier: letters in both
\* cases and characters a browser accepts in an e-mail input
EmailChars == {"a", "A", "b", ".", "#", "$", "_"}
\* the texts of up to MaxEmailLen of these characters
EmailTexts == UNION {[1..n -> EmailChars] : n \in 1..MaxEmailLen}

\* the e-mail input of the Auth form: onChange -> setEmail
TypeEmail(c, email) ==
    /\ session[c] = NoSession
    /\ ~isLoading[c]
    /\ pc[c] = Idle
    /\ screen' = [screen EXCEPT ![c].email = email]
    /\ UNCHANGED <<storeVars, session, storage, isLoading, view, formData, modalData, dashboard, submitStatus,
                   requests, pageError, pc, badges, popup>>

\* the links under the Auth form that lead to the login and sign-up views
SwitchAuthView(c, v) ==
    /\ session[c] = NoSession
    /\ ~isLoading[c]
    /\ pc[c] = Idle
    /\ v \in {"login", "signup"}
    /\ v # screen[c].view
    /\ screen' = [screen EXCEPT ![c] = [@ EXCEPT !.view = v, !.error = <<>>]]
    /\ UNCHANGED <<storeVars, session, storage, isLoading, view, formData, modalData, dashboard, submitStatus,
                   requests, pageError, pc, badges, popup>>

\* what changes on the Auth screen of c and nowhere else on the client
AuthOnly(c, next, error, v) ==
    /\ pc' = [pc EXCEPT ![c] = next]
    /\ screen' = [screen EXCEPT ![c] = [@ EXCEPT !.error = error, !.view = v]]
    /\ UNCHANGED <<session, storage, isLoading, view, formData, modalData, dashboard, submitStatus,
                   requests, pageError, badges, popup>>

\* the sign-up form (credentials step) is submitted with matching passwords
\* of six characters or more: Auth.handleSubmit up to the awaited existence
\* read of authService.signUp
IssueSignUp(c, email, password) ==
    /\ session[c] = NoSession
    /\ ~isLoading[c]
    /\ pc[c] = Idle
    /\ screen[c].view = "signup"
    /\ pc' = [pc EXCEPT ![c] = [op |-> "signup_read", email |-> email, password |-> password]]
    /\ screen' = [screen EXCEPT ![c] = [@ EXCEPT !.email = email, !.error = <<>>]]
    /\ UNCHANGED <<storeVars, session, storage, isLoading, view, formData, modalData, dashboard, submitStatus,
                   requests, pageError, badges, popup>>

\* a sign-up that creates the record only if none exists when it is written
SignUpPutIfAbsent(c) ==
    /\ pc[c].op = "signup_put"
    /\ LET u == UserPath(pc[c].email)
       IN \/ /\ ~accounts[u].exists
             /\ accounts' = [accounts EXCEPT ![u] =
                   [exists |-> TRUE, passwordHash |-> Sha256(pc[c].password),
                    isVerified |-> FALSE]]
             /\ users' = [users EXCEPT ![u] = "user"]
             /\ faults' = faults
             /\ AuthOnly(c, [pc[c] EXCEPT !.op = "signup_mail"], <<>>, "signup")
          \/ /\ accounts[u].exists
             /\ UNCHANGED <<users, accounts, faults>>
             /\ AuthOnly(c, Idle, EmailInUse, "signup")
          \/ /\ faults < MaxFaults
             /\ faults' = faults + 1
             /\ UNCHANGED <<users, accounts>>
             /\ AuthOnly(c, Idle, CreateFailed, "signup")
    /\ UNCHANGED <<store, invoices, now, roleChanges, notifs, relay, listing>>

\* the existence read of authService.signUp answers: a record that is there
\* ends the call with 'e-mail already in use'; no record, or a response that
\* is not ok, goes on to the PUT; a fetch that throws ends the call
SignUpRead(c) ==
    /\ pc[c].op = "signup_read"
    /\ \/ /\ faults' = faults
          /\ IF accounts[UserPath(pc[c].email)].exists
             THEN AuthOnly(c, Idle, EmailInUse, "signup")
             ELSE AuthOnly(c, [pc[c] EXCEPT !.op = "signup_put"], <<>>, "signup")
       \/ /\ faults < MaxFaults
          /\ faults' = faults + 1
          /\ \/ AuthOnly(c, [pc[c] EXCEPT !.op = "signup_put"], <<>>, "signup")
             \/ AuthOnly(c, Idle, ServerError, "signup")
    /\ UNCHANGED <<users, accounts, store, invoices, now, roleChanges, notifs, relay, listing>>

\* the PUT of authService.signUp answers: the record is replaced by the new
\* user (unverified, role 'user')
SignUpPut(c) ==
    /\ pc[c].op = "signup_put"
    /\ LET u == UserPath(pc[c].email)
       IN \/ /\ accounts' = [accounts EXCEPT ![u] =
                   [exists |-> TRUE, passwordHash |-> Sha256(pc[c].password),
                    isVerified |-> FALSE]]
             /\ users' = [users EXCEPT ![u] = "user"]
             /\ faults' = faults
             /\ AuthOnly(c, [pc[c] EXCEPT !.op = "signup_mail"], <<>>, "signup")
          \/ /\ faults < MaxFaults
             /\ faults' = faults + 1
             /\ UNCHANGED <<users, accounts>>
             /\ AuthOnly(c, Idle, CreateFailed, "signup")
    /\ UNCHANGED <<store, invoices, now, roleChanges, notifs, relay, listing>>

\* requestVerificationEmail of authService.signUp answers; the rest of
\* Auth.handleSubmit
SignUpMailed(c) ==
    /\ pc[c].op = "signup_mail"
    /\ \/ /\ faults' = faults
          /\ AuthOnly(c, Idle, <<>>, "verify")
       \/ /\ faults < MaxFaults
          /\ faults' = faults + 1
          /\ AuthOnly(c, Idle, ServerError, "signup")
    /\ UNCHANGED <<users, accounts, store, invoices, now, roleChanges, notifs, relay, listing>>

\* the verification form is submitted with the code that was mailed or with
\* another one: Auth.handleSubmit up to the awaited confirmVerification
IssueVerify(c, rightCode) ==
    /\ session[c] = NoSession
    /\ ~isLoading[c]
    /\ pc[c] = Idle
    /\ screen[c].view = "verify"
    /\ pc' = [pc EXCEPT ![c] = [op |-> "verify", email |-> screen[c].email,
                                rightCode |-> rightCode]]
    /\ screen' = [screen EXCEPT ![c] = [@ EXCEPT !.error = <<>>]]
    /\ UNCHANGED <<storeVars, session, storage, isLoading, view, formData, modalData, dashboard, submitStatus,
                   requests, pageError, badges, popup>>

\* confirmVerification answers. The script behind it is not part of the
\* repository: it is taken to mark the record verified when the code is the
\* mailed one and to answer ok: false otherwise.
VerifyDone(c) ==
    /\ pc[c].op = "verify"
    /\ LET u == UserPath(pc[c].email)
       IN \/ /\ faults' = faults
             /\ IF pc[c].rightCode /\ accounts[u].exists
                THEN /\ accounts' = [accounts EXCEPT ![u].isVerified = TRUE]
                     /\ AuthOnly(c, Idle, <<>>, "login")
                ELSE /\ accounts' = accounts
                     /\ AuthOnly(c, Idle, <<"Falha", "ao", "verificar", "o", "codigo.">>, "verify")
          \/ /\ faults < MaxFaults
             /\ faults' = faults + 1
             /\ accounts' = accounts
             /\ AuthOnly(c, Idle, ServerError, "verify")
    /\ UNCHANGED <<users, store, invoices, now, roleChanges, notifs, relay, listing>>

\* Main.handleLogout: App and its pages unmount, Auth mounts
Logout(c) ==
    /\ session[c] # NoSession
    /\ pc[c] = Idle
    /\ session' = [session EXCEPT ![c] = NoSession]
    /\ storage' = [storage EXCEPT ![c] = NoStorage]
    /\ screen' = [screen EXCEPT ![c] = FreshAuth]
    /\ view' = [view EXCEPT ![c] = "formulario"]
    /\ FreshPage(c, "")
    /\ requests' = [requests EXCEPT ![c] = [id \in {} |-> EmptyDoc]]
    /\ pageError' = [pageError EXCEPT ![c] = FALSE]
    /\ badges' = [badges EXCEPT ![c] = MountedBadges(FALSE)]
    /\ UNCHANGED <<storeVars, pc, isLoading, popup>>

\* the tab is reloaded: Main mounts with no user and isLoading true; the
\* sessionStorage of the tab survives
Reload(c) ==
    /\ pc[c] = Idle
    /\ ~isLoading[c]
    /\ isLoading' = [isLoading EXCEPT ![c] = TRUE]
    /\ session' = [session EXCEPT ![c] = NoSession]
    /\ screen' = [screen EXCEPT ![c] = FreshAuth]
    /\ view' = [view EXCEPT ![c] = "formulario"]
    /\ FreshPage(c, "")
    /\ requests' = [requests EXCEPT ![c] = [id \in {} |-> EmptyDoc]]
    /\ pageError' = [pageError EXCEPT ![c] = FALSE]
    /\ badges' = [badges EXCEPT ![c] = MountedBadges(FALSE)]
    /\ popup' = [popup EXCEPT ![c] = NoPopup]
    /\ UNCHANGED <<storeVars, pc, storage>>

\* a restore that forgets the stored user
RestoreSessionNever(c) ==
    /\ isLoading[c]
    /\ isLoading' = [isLoading EXCEPT ![c] = FALSE]
    /\ UNCHANGED <<storeVars, session, screen, storage, view, formData, modalData, dashboard, submitStatus,
                   requests, pageError, pc, badges, popup>>

\* Main's mount effect: the stored user, if any, becomes currentUser (and App
\* mounts), then loading ends
RestoreSession(c) ==
    /\ isLoading[c]
    /\ isLoading' = [isLoading EXCEPT ![c] = FALSE]
    /\ IF "user" \in DOMAIN storage[c]
       THEN LET user == Parse(storage[c]["user"])
            IN /\ session' = [session EXCEPT ![c] = user]
               /\ FreshPage(c, user.uid)
               /\ badges' = [badges EXCEPT ![c] = MountedBadges(TRUE)]
       ELSE UNCHANGED <<session, formData, modalData, dashboard, submitStatus, badges>>
    /\ UNCHANGED <<storeVars, screen, storage, view, requests, pageError, pc, popup>>

\* App.handleSetActiveView from a sidebar link; the new page mounts and runs
\* its fetchRequests effect (AprovarComprasPage, SetorComprasPage)
SetActiveView(c, v) ==
    /\ session[c] # NoSession
    /\ pc[c] = Idle
    /\ v \in ReachableViews(session[c].role)
    /\ v # view[c]
    /\ view' = [view EXCEPT ![c] = v]
    /\ FreshPage(c, session[c].uid)
    /\ IF v \in {"aprovar_compras", "setor_compras"}
       THEN \/ /\ requests' = [requests EXCEPT ![c] =
                     IF v = "setor_compras"
                     THEN RelevantRequests(GetPurchaseRequests(store))
                     ELSE GetPurchaseRequests(store)]
               /\ pageError' = [pageError EXCEPT ![c] = FALSE]
               /\ faults' = faults
            \/ /\ faults < MaxFaults
               /\ faults' = faults + 1
               /\ requests' = [requests EXCEPT ![c] = [id \in {} |-> EmptyDoc]]
               /\ pageError' = [pageError EXCEPT ![c] = TRUE]
       ELSE /\ requests' = [requests EXCEPT ![c] = [id \in {} |-> EmptyDoc]]
            /\ pageError' = [pageError EXCEPT ![c] = FALSE]
            /\ faults' = faults
    /\ UNCHANGED <<users, accounts, store, invoices, now, roleChanges, notifs, relay, listing, session, screen, storage, isLoading, pc>>
    /\ UNCHANGED <<badges, popup>>

\* AdminPage.handleRoleChange -> authService.updateUserRole
HandleRoleChange(c, u, r) ==
    /\ session[c] # NoSession
    /\ view[c] = "admin"
    /\ pc[c] = Idle
    /\ roleChanges < MaxRoleChanges
    /\ accounts[u].exists
    /\ r # SignInRole(users[u])
    /\ roleChanges' = roleChanges + 1
    /\ accounts' = accounts
    /\ \/ /\ users' = [users EXCEPT ![u] = r]
          /\ faults' = faults
          /\ popup' = popup
       \/ /\ faults < MaxFaults
          /\ faults' = faults + 1
          /\ users' = users
          /\ popup' = [popup EXCEPT ![c] = Alert("Falha ao atualizar a permissao do usuario.", "")]
    /\ UNCHANGED <<store, invoices, now, notifs, relay, listing,
                   session, screen, storage, isLoading, view, formData, modalData, dashboard, submitStatus, requests, pageError, pc, badges>>

\* the listing read of App.fetchCounts answers: the counts are set from the
\* list, or the failure is logged and the counts stay
FetchCounts(c) ==
    /\ session[c] # NoSession
    /\ badges[c].fetching
    /\ \/ /\ LET counted == DerivedCounts(GetPurchaseRequests(store))
             IN badges' = [badges EXCEPT ![c] =
                   [pendingApprovalsCount |-> counted.pendingApprovals,
                    pendingPurchasesCount |-> counted.pendingPurchases,
                    fetching |-> FALSE]]
          /\ faults' = faults
       \/ /\ faults < MaxFaults
          /\ faults' = faults + 1
          /\ badges' = [badges EXCEPT ![c].fetching = FALSE]
    /\ UNCHANGED <<users, accounts, store, invoices, now, roleChanges, notifs, relay, listing,
                   session, screen, storage, isLoading, view, formData, modalData, dashboard, submitStatus, requests, pageError, pc, popup>>

(* ----------------------------- PurchaseForm --------------------------- *)
\* PurchaseForm.handleSubmit up to the awaited addPurchaseRequest; f is the
\* form as the user has filled it
Submit(c, f) ==
    /\ session[c] # NoSession
    /\ view[c] = "formulario"
    /\ pc[c] = Idle
    /\ formData' = [formData EXCEPT ![c] = f]
    /\ IF Validate(f) # <<>>
       THEN /\ submitStatus' = [submitStatus EXCEPT ![c] =
                  [type |-> "error", message |-> "preencha", errors |-> Validate(f)]]
            /\ UNCHANGED <<now, pc>>
       ELSE /\ now <= MaxTime
            /\ Cardinality(DOMAIN store)
                 + Cardinality({d \in Clients : pc[d].op = "submit"}) < MaxReq
            /\ submitStatus' = [submitStatus EXCEPT ![c] = NoStatus]
            /\ pc' = [pc EXCEPT ![c] =
                  [op |-> "submit", requestData |-> RequestData(f, session[c].uid, now)]]
            /\ now' = now + 1
    /\ UNCHANGED <<users, accounts, store, invoices, faults, roleChanges, notifs, relay, listing,
                   session, screen, storage, isLoading, view, modalData, dashboard, requests, pageError>>
    /\ UNCHANGED <<badges, popup>>

\* databaseService.addPurchaseRequest answers; the rest of handleSubmit
SubmitDone(c) ==
    /\ pc[c].op = "submit"
    /\ pc' = [pc EXCEPT ![c] = Idle]
    /\ \/ LET newRequestId == Cardinality(DOMAIN store) + 1
              requestData == pc[c].requestData
          IN /\ store' = store @@ (newRequestId :> requestData)
             /\ Send({[notificationType |-> "pedido_recebido",
                                               id |-> newRequestId,
                                               to |-> requestData.email]})
             /\ listing' = listing @@ (newRequestId :> "pending")
             /\ submitStatus' = [submitStatus EXCEPT ![c] =
                   [type |-> "success", message |-> "sucesso", errors |-> <<>>]]
             /\ formData' = [formData EXCEPT ![c] =
                   [InitialForm("") EXCEPT !.nome = formData[c].nome,
                                           !.email = formData[c].email]]
             /\ badges' = [badges EXCEPT ![c] = CallFetchCounts(@)]
             /\ faults' = faults
       \/ /\ faults < MaxFaults
          /\ faults' = faults + 1
          /\ submitStatus' = [submitStatus EXCEPT ![c] =
                [type |-> "error", message |-> "falha", errors |-> <<>>]]
          /\ UNCHANGED <<store, notifs, relay, listing, formData, modalData, dashboard, badges>>
    /\ UNCHANGED <<users, accounts, invoices, now, roleChanges, session, screen, storage, isLoading, view,
                   modalData, dashboard, requests, pageError, popup>>

\* notificationService.notifyApproversAboutRequest: getApproverContacts
\* answers (a failed read yields no contacts) and every contact is notified
NotifyApprovers(id) ==
    /\ id \in DOMAIN listing
    /\ listing[id] = "pending"
    /\ \/ /\ Send({[notificationType |-> "nova_solicitacao_aprovacao",
                                            id |-> id, to |-> u] :
                                           u \in ApproverContacts(users)})
          /\ listing' = [listing EXCEPT ![id] = "done"]
          /\ faults' = faults
       \/ /\ faults < MaxFaults
          /\ faults' = faults + 1
          /\ listing' = [listing EXCEPT ![id] = "failed"]
          /\ UNCHANGED <<notifs, relay>>
    /\ UNCHANGED <<users, accounts, store, invoices, now, roleChanges, clientVars>>

\* a relay client that sends a failed payload again
RelayAnswersRetry(m) ==
    /\ BagIn(m, relay.outbox)
    /\ \/ relay' = [relay EXCEPT !.outbox = @ (-) SetToBag({m}),
                                 !.delivered = @ (+) SetToBag({m})]
       \/ relay' = [relay EXCEPT !.lost = @ (+) SetToBag({m})]
    /\ UNCHANGED <<users, accounts, store, invoices, now, faults, roleChanges, notifs, listing,
                   clientVars>>

\* the fetch of one sendNotificationRequest call answers: the relay got the
\* payload (opaque or OK response), or the fetch failed, was aborted after
\* 8 s or answered non-OK, which is logged and nothing else
RelayAnswers(m) ==
    /\ BagIn(m, relay.outbox)
    /\ \/ relay' = [relay EXCEPT !.outbox = @ (-) SetToBag({m}),
                                 !.delivered = @ (+) SetToBag({m})]
       \/ relay' = [relay EXCEPT !.outbox = @ (-) SetToBag({m}),
                                 !.lost = @ (+) SetToBag({m})]
    /\ UNCHANGED <<users, accounts, store, invoices, now, faults, roleChanges, notifs, listing,
                   clientVars>>

(* --------------------------- AprovarComprasPage ----------------------- *)
\* what the rejection textarea may hold
Justifications == {"", "fora do orcamento"}

\* AprovarComprasPage.handleLocalStatusUpdate
LocalStatusUpdate(list, id, newStatus, justification) ==
    [i \in DOMAIN list |->
        IF i = id
        THEN Spread(list[i], [status |-> newStatus, justification |-> justification])
        ELSE list[i]]

\* the Aprovar button of a row shown as pendente, then the modal's confirm:
\* handleConfirmApproval up to the awaited updatePurchaseRequestStatus
IssueApprove(c, id) ==
    /\ view[c] = "aprovar_compras"
    /\ session[c] # NoSession
    /\ ~pageError[c]
    /\ pc[c] = Idle
    /\ id \in DOMAIN requests[c]
    /\ requests[c][id].status = "pendente"
    /\ now <= MaxTime
    /\ pc' = [pc EXCEPT ![c] =
          [op |-> "approve", id |-> id, status |-> "aprovado", justification |-> "undefined",
           payload |-> UpdatePayload("aprovado", "undefined", now),
           snapshot |-> requests[c][id]]]
    /\ now' = now + 1
    /\ UNCHANGED <<users, accounts, store, invoices, faults, roleChanges, notifs, relay, listing,
                   session, screen, storage, isLoading, view, formData, modalData, dashboard, submitStatus, requests, pageError>>
    /\ UNCHANGED <<badges, popup>>

\* the Reprovar button, then the rejection modal's confirm with its textarea:
\* handleConfirmRejection up to the awaited updatePurchaseRequestStatus
IssueReject(c, id, justification) ==
    /\ view[c] = "aprovar_compras"
    /\ session[c] # NoSession
    /\ ~pageError[c]
    /\ pc[c] = Idle
    /\ id \in DOMAIN requests[c]
    /\ requests[c][id].status = "pendente"
    /\ now <= MaxTime
    /\ pc' = [pc EXCEPT ![c] =
          [op |-> "reject", id |-> id, status |-> "reprovado", justification |-> justification,
           payload |-> UpdatePayload("reprovado", justification, now),
           snapshot |-> requests[c][id]]]
    /\ now' = now + 1
    /\ UNCHANGED <<users, accounts, store, invoices, faults, roleChanges, notifs, relay, listing,
                   session, screen, storage, isLoading, view, formData, modalData, dashboard, submitStatus, requests, pageError>>
    /\ UNCHANGED <<badges, popup>>

\* a page that updates its list before the PATCH is answered
StatusDoneOptimistic(c) ==
    /\ pc[c].op \in {"approve", "reject"}
    /\ pc' = [pc EXCEPT ![c] = Idle]
    /\ requests' = [requests EXCEPT ![c] =
          LocalStatusUpdate(@, pc[c].id, pc[c].status, pc[c].justification)]
    /\ \/ /\ store' = [store EXCEPT ![pc[c].id] = Patch(@, pc[c].payload)]
          /\ Send({[notificationType |->
                                                IF pc[c].status = "aprovado"
                                                THEN "pedido_aprovado" ELSE "pedido_reprovado",
                                            id |-> pc[c].snapshot.id,
                                            to |-> pc[c].snapshot.email]})
          /\ badges' = [badges EXCEPT ![c] = CallFetchCounts(@)]
          /\ UNCHANGED <<faults, pageError>>
       \/ /\ faults < MaxFaults
          /\ faults' = faults + 1
          /\ pageError' = [pageError EXCEPT ![c] = TRUE]
          /\ UNCHANGED <<store, notifs, relay, badges>>
    /\ UNCHANGED <<users, accounts, invoices, now, roleChanges, listing,
                   session, screen, storage, isLoading, view, formData, modalData, dashboard, submitStatus, popup>>

\* the PATCH of updatePurchaseRequestStatus answers; the rest of
\* handleConfirmApproval / handleConfirmRejection
StatusDone(c) ==
    /\ pc[c].op \in {"approve", "reject"}
    /\ pc' = [pc EXCEPT ![c] = Idle]
    /\ \/ /\ store' = [store EXCEPT ![pc[c].id] = Patch(@, pc[c].payload)]
          /\ requests' = [requests EXCEPT ![c] =
                LocalStatusUpdate(@, pc[c].id, pc[c].status, pc[c].justification)]
          /\ Send({[notificationType |->
                                                IF pc[c].status = "aprovado"
                                                THEN "pedido_aprovado" ELSE "pedido_reprovado",
                                            id |-> pc[c].snapshot.id,
                                            to |-> pc[c].snapshot.email]})
          /\ badges' = [badges EXCEPT ![c] = CallFetchCounts(@)]
          /\ UNCHANGED <<faults, pageError>>
       \/ /\ faults < MaxFaults
          /\ faults' = faults + 1
          /\ pageError' = [pageError EXCEPT ![c] = TRUE]
          /\ UNCHANGED <<store, requests, notifs, relay, badges>>
    /\ UNCHANGED <<users, accounts, invoices, now, roleChanges, listing,
                   session, screen, storage, isLoading, view, formData, modalData, dashboard, submitStatus, popup>>

(* ---------------------------- SetorComprasPage ------------------------ *)
\* Text is a sequence of one-character strings where its characters matter
DigitChars == <<"0", "1", "2", "3", "4", "5", "6", "7", "8", "9">>
RECURSIVE Digits(_)
\* the decimal digits of n
Digits(n) == IF n < 10 THEN <<DigitChars[n + 1]>>
             ELSE Digits(n \div 10) \o <<DigitChars[(n % 10) + 1]>>
\* the digit a character stands for
DigitValue(ch) == (CHOOSE i \in 1..10 : DigitChars[i] = ch) - 1
RECURSIVE ParseDigits(_)
\* the number a sequence of digit characters stands for
ParseDigits(s) == IF s = <<>> THEN 0
                  ELSE ParseDigits(SubSeq(s, 1, Len(s) - 1)) * 10 + DigitValue(s[Len(s)])

\* Intl.NumberFormat('pt-BR', currency BRL) of cents / 100: "R$ 1.234,56"
FormatCurrency(cents) ==
    LET reais == Digits(cents \div 100)
        n == Len(reais)
        grouped == [i \in 1..n |->
                       IF i < n /\ (n - i) % 3 = 0 THEN <<reais[i], ".">> ELSE <<reais[i]>>]
        Flat[i \in 0..n] == IF i = 0 THEN <<>> ELSE Flat[i - 1] \o grouped[i]
    IN <<"R", "$", " ">> \o Flat[n]
       \o <<",", DigitChars[((cents % 100) \div 10) + 1], DigitChars[(cents % 10) + 1]>>

\* a normalization that deletes the decimal comma instead of making it the
\* decimal point
NormalizeCurrencyDropsComma(s) ==
    ParseDigits(SelectSeq(s, LAMBDA ch : ch \notin {"R", "$", " ", ".", ","})) * 100

\* PurchaseConfirmationModal.handleSubmit on a value field: 'R$' removed,
\* trimmed, every '.' removed, ',' made the decimal point, parseFloat; the
\* amount is kept in centavos
NormalizeCurrency(s) ==
    LET body == SelectSeq(s, LAMBDA ch : ch \notin {"R", "$", " ", "."})
        comma == IF \E i \in 1..Len(body) : body[i] = ","
                 THEN CHOOSE i \in 1..Len(body) :
                         body[i] = "," /\ \A j \in 1..(i - 1) : body[j] # ","
                 ELSE Len(body) + 1
        whole == SubSeq(body, 1, comma - 1)
        frac == SubSeq(body, comma + 1, Len(body))
    IN ParseDigits(whole) * 100
       + (IF Len(frac) = 0 THEN 0
          ELSE IF Len(frac) = 1 THEN ParseDigits(frac) * 10
          ELSE ParseDigits(SubSeq(frac, 1, 2)))

\* the modal of a product request: every way of leaving its inputs empty or
\* filled (the third quotation link is left empty)
ProdutoInputs ==
    {[valorProduto |-> v, linkCotacao1 |-> l1, linkCotacao2 |-> l2, linkCotacao3 |-> "",
      previsaoChegada |-> d] :
        v \in {<<>>, FormatCurrency(123456)}, l1 \in {"", "https://cotacao/1"},
        l2 \in {"", "https://cotacao/2"}, d \in {"", "2025-02-01"}}

\* the modal of a service request
ServicoInputs ==
    {[valorServico |-> v, dataRealizacao |-> d] :
        v \in {<<>>, FormatCurrency(5000)}, d \in {"", "2025-02-03"}}

\* PurchaseConfirmationModal.purchaseData for a request of the given tipo
PurchaseInputs(tipo) ==
    IF tipo = "produto" THEN ProdutoInputs
    ELSE IF tipo = "servico" THEN ServicoInputs
    ELSE {EmptyDoc}

\* a modal whose first quotation link is not a required input
RequiredFilledButLink(tipo, pd) ==
    IF tipo = "produto"
    THEN pd.valorProduto # <<>> /\ pd.previsaoChegada # ""
    ELSE IF tipo = "servico"
    THEN pd.valorServico # <<>> /\ pd.dataRealizacao # ""
    ELSE TRUE

\* the required inputs of the modal's form: the browser submits the form
\* only when all of them are filled
RequiredFilled(tipo, pd) ==
    IF tipo = "produto"
    THEN pd.valorProduto # <<>> /\ pd.linkCotacao1 # "" /\ pd.previsaoChegada # ""
    ELSE IF tipo = "servico"
    THEN pd.valorServico # <<>> /\ pd.dataRealizacao # ""
    ELSE TRUE

\* PurchaseConfirmationModal.handleSubmit: dataToSubmit
NormalizePurchase(pd) ==
    [k \in DOMAIN pd |->
        IF k \in {"valorProduto", "valorServico"} /\ pd[k] # <<>>
        THEN NormalizeCurrency(pd[k])
        ELSE pd[k]]

\* the value inputs of the modal, bound to handleCurrencyChange
ValueFields == {"valorProduto", "valorServico"}

\* the modal's effect on its request prop: the inputs of the request's tipo,
\* all empty; a request of another tipo leaves purchaseData as it was
InitialPurchaseData(tipo, prev) ==
    IF tipo = "produto"
    THEN [valorProduto |-> <<>>, linkCotacao1 |-> "", linkCotacao2 |-> "", linkCotacao3 |-> "",
          previsaoChegada |-> ""]
    ELSE IF tipo = "servico"
    THEN [valorServico |-> <<>>, dataRealizacao |-> ""]
    ELSE prev

\* value.replace(/\D/g, ''): the digits of a text
OnlyDigits(value) == SelectSeq(value, LAMBDA ch : \E i \in 1..10 : DigitChars[i] = ch)

\* the keys pressed in a value input: digits and a letter
Keys == {"0", "1", "2", "x"}

\* the edits of a value input: a key, the last character deleted, or
\* everything selected and deleted
EditKeys == Keys \cup {"Backspace", "Delete"}

\* what an input showing text holds after the edit
Edited(text, key) ==
    IF key \in Keys THEN Append(text, key)
    ELSE IF key = "Backspace" THEN SubSeq(text, 1, Len(text) - 1)
    ELSE <<>>

\* what an input showing text may hold after one edit
Edits(text) == {Edited(text, key) : key \in EditKeys}

\* what the other inputs of the modal are set to
FieldInputs(name) ==
    CASE name = "linkCotacao1" -> {"", "https://cotacao/1"}
      [] name = "linkCotacao2" -> {"", "https://cotacao/2"}
      [] name = "previsaoChegada" -> {"", "2025-02-01"}
      [] name = "dataRealizacao" -> {"", "2025-02-03"}
      [] OTHER -> {""}

\* the Comprar button of a row of the Pendentes tab: the modal opens on the
\* request and its effect empties the inputs
OpenPurchaseModal(c, id) ==
    /\ view[c] = "setor_compras"
    /\ session[c] # NoSession
    /\ pc[c] = Idle
    /\ modalData[c] = EmptyDoc
    /\ id \in DOMAIN requests[c]
    /\ requests[c][id].status = "aprovado"
    /\ modalData' = [modalData EXCEPT ![c] = InitialPurchaseData(requests[c][id].tipo, @)]
    /\ UNCHANGED <<storeVars, session, screen, storage, isLoading, view, formData, dashboard,
                   submitStatus, requests, pageError, pc, badges, popup>>

\* onClose from the backdrop or the Cancelar button: the request prop becomes
\* null and the effect empties purchaseData
CloseModal(c) ==
    /\ modalData[c] # EmptyDoc
    /\ pc[c] = Idle
    /\ modalData' = [modalData EXCEPT ![c] = EmptyDoc]
    /\ UNCHANGED <<storeVars, session, screen, storage, isLoading, view, formData, dashboard,
                   submitStatus, requests, pageError, pc, badges, popup>>

\* PurchaseConfirmationModal.handleCurrencyChange: the input holds value
\* after the edit; its digits, read as centavos, are formatted back into
\* the field, and a value without digits empties it. The inputs are left
\* alone while a confirmation is awaited
HandleCurrencyChange(c, name, value) ==
    /\ name \in ValueFields \cap DOMAIN modalData[c]
    /\ pc[c] = Idle
    /\ value \in Edits(modalData[c][name])
    /\ LET numericValue == OnlyDigits(value)
       IN /\ ParseDigits(numericValue) <= MaxCents
          /\ modalData' = [modalData EXCEPT ![c][name] =
                IF numericValue = <<>> THEN <<>>
                ELSE FormatCurrency(ParseDigits(numericValue))]
    /\ modalData'[c] # modalData[c]
    /\ UNCHANGED <<storeVars, session, screen, storage, isLoading, view, formData, dashboard,
                   submitStatus, requests, pageError, pc, badges, popup>>

\* PurchaseConfirmationModal.handleChange on one of the other inputs
HandleChange(c, name, value) ==
    /\ name \in DOMAIN modalData[c] \ ValueFields
    /\ pc[c] = Idle
    /\ value \in FieldInputs(name)
    /\ value # modalData[c][name]
    /\ modalData' = [modalData EXCEPT ![c][name] = value]
    /\ UNCHANGED <<storeVars, session, screen, storage, isLoading, view, formData, dashboard,
                   submitStatus, requests, pageError, pc, badges, popup>>

\* the Comprar button of a row shown as aprovado, then the modal's submit
\* with purchaseData as filled in: PurchaseConfirmationModal.handleSubmit and
\* handleConfirmPurchase up to the awaited confirmPurchase
IssueConfirm(c, id, purchaseData) ==
    /\ view[c] = "setor_compras"
    /\ session[c] # NoSession
    /\ ~pageError[c]
    /\ pc[c] = Idle
    /\ id \in DOMAIN requests[c]
    /\ requests[c][id].status = "aprovado"
    /\ purchaseData \in PurchaseInputs(requests[c][id].tipo) \cup {modalData[c]}
    /\ DOMAIN purchaseData = DOMAIN InitialPurchaseData(requests[c][id].tipo, EmptyDoc)
    /\ RequiredFilled(requests[c][id].tipo, purchaseData)
    /\ now <= MaxTime
    /\ LET dataToSubmit == NormalizePurchase(purchaseData)
       IN pc' = [pc EXCEPT ![c] =
             [op |-> "confirm", id |-> id, purchaseData |-> dataToSubmit,
              payload |-> ConfirmPayload(dataToSubmit, now),
              snapshot |-> requests[c][id]]]
    /\ now' = now + 1
    /\ UNCHANGED <<users, accounts, store, invoices, faults, roleChanges, notifs, relay, listing,
                   session, screen, storage, isLoading, view, formData, modalData, dashboard, submitStatus, requests, pageError>>
    /\ UNCHANGED <<badges, popup>>

\* the PATCH of confirmPurchase answers; the rest of handleConfirmPurchase
ConfirmDone(c) ==
    /\ pc[c].op = "confirm"
    /\ pc' = [pc EXCEPT ![c] = Idle]
    /\ \/ /\ store' = [store EXCEPT ![pc[c].id] = Patch(@, pc[c].payload)]
          /\ requests' = [requests EXCEPT ![c][pc[c].id] =
                Spread(Spread(@, [status |-> "comprado", purchasedAt |-> now]),
                       pc[c].purchaseData)]
          /\ Send({[notificationType |-> "pedido_a_caminho",
                                            id |-> pc[c].id,
                                            to |-> pc[c].snapshot.email]})
          /\ badges' = [badges EXCEPT ![c] = CallFetchCounts(@)]
          /\ modalData' = [modalData EXCEPT ![c] = EmptyDoc]
          /\ UNCHANGED <<faults, pageError, popup>>
       \/ /\ faults < MaxFaults
          /\ faults' = faults + 1
          /\ pageError' = [pageError EXCEPT ![c] = TRUE]
          /\ popup' = [popup EXCEPT ![c] = Alert("Falha ao confirmar a compra. Tente novamente.", "")]
          /\ UNCHANGED <<store, requests, notifs, relay, badges, modalData, dashboard>>
    /\ UNCHANGED <<users, accounts, invoices, now, roleChanges, listing,
                   session, screen, storage, isLoading, view, formData, dashboard, submitStatus>>

(* ---------------------------- DashboardsPage -------------------------- *)
\* Amounts are whole numbers of centavos; a stored value of 1234.56 is 123456.
\* String(value) of a stored amount: the shortest decimal text of the number,
\* "1234", "1234.5" or "1234.56"
StringOf(cents) ==
    Digits(cents \div 100)
    \o (IF cents % 100 = 0 THEN <<>>
        ELSE IF cents % 10 = 0 THEN <<".", DigitChars[((cents % 100) \div 10) + 1]>>
        ELSE <<".", DigitChars[((cents % 100) \div 10) + 1], DigitChars[(cents % 10) + 1]>>)

\* cleanedValue of fetchAndCalculateStats: everything but digits, ',', '.'
\* and '-' removed, then every '.' removed, then the first ',' made a '.'
CleanedValue(text) ==
    LET kept == SelectSeq(text, LAMBDA ch : ch \in Range(DigitChars) \cup {",", ".", "-"})
        undotted == SelectSeq(kept, LAMBDA ch : ch # ".")
        commas == {i \in 1..Len(undotted) : undotted[i] = ","}
    IN [i \in 1..Len(undotted) |->
          IF i \in commas /\ \A j \in commas : i <= j THEN "." ELSE undotted[i]]

\* what parseFloat yields for a text without a number in it
NaN == -1

\* parseFloat of a text, in centavos: the leading digits, then the digits
\* after a decimal point (amounts are not negative, so a sign yields NaN)
ParseFloat(text) ==
    LET n == Len(text)
        IsDigit(i) == i <= n /\ text[i] \in Range(DigitChars)
        w == IF \E i \in 1..n : ~IsDigit(i)
             THEN (CHOOSE i \in 1..n : ~IsDigit(i) /\ \A j \in 1..(i - 1) : IsDigit(j)) - 1
             ELSE n
        hasPoint == w < n /\ text[w + 1] = "."
        rest == IF hasPoint THEN SubSeq(text, w + 2, n) ELSE <<>>
        f == IF \E i \in 1..Len(rest) : rest[i] \notin Range(DigitChars)
             THEN (CHOOSE i \in 1..Len(rest) :
                      /\ rest[i] \notin Range(DigitChars)
                      /\ \A j \in 1..(i - 1) : rest[j] \in Range(DigitChars)) - 1
             ELSE Len(rest)
        frac == SubSeq(rest, 1, f)
    IN IF w = 0 /\ f = 0 THEN NaN
       ELSE ParseDigits(SubSeq(text, 1, w)) * 100
            + (IF f = 0 THEN 0
               ELSE IF f = 1 THEN ParseDigits(frac) * 10
               ELSE ParseDigits(SubSeq(frac, 1, 2)))

\* req.valorProduto || req.valorServico: a missing field and 0 are both falsy
ValueOf(req) ==
    LET Field(k) == IF k \in DOMAIN req THEN req[k] ELSE 0
    IN IF Field("valorProduto") # 0 THEN Field("valorProduto") ELSE Field("valorServico")

\* the keys of spendingByUnit
UnitNames == <<"Unidade 1", "Unidade 2", "Unidade 3", "Unidade 4", "Unidade 5", "Unidade 6">>

\* numericValue of a request in the forEach of fetchAndCalculateStats
NumericValue(req) == ParseFloat(CleanedValue(StringOf(ValueOf(req))))

\* what one request adds to totalSpent
Spending(req) ==
    IF req.status = "comprado" /\ ValueOf(req) # 0 /\ NumericValue(req) # NaN
    THEN NumericValue(req)
    ELSE 0

RECURSIVE SpendingOf(_, _)
\* the spending of the requests of data with a key in ids
SpendingOf(data, ids) ==
    IF ids = {} THEN 0
    ELSE LET i == CHOOSE i \in ids : TRUE
         IN Spending(data[i]) + SpendingOf(data, ids \ {i})

\* DashboardsPage after fetchAndCalculateStats got data
CalculateStats(data) ==
    LET unassignedSpending ==
           SpendingOf(data, {i \in DOMAIN data : data[i].unidade \notin Range(UnitNames)})
        formattedChartData ==
           [u \in 1..Len(UnitNames) |->
               [name |-> UnitNames[u],
                value |-> SpendingOf(data, {i \in DOMAIN data : data[i].unidade = UnitNames[u]})]]
    IN [isLoading |-> FALSE, error |-> FALSE,
        stats |-> [totalSpent |-> SpendingOf(data, DOMAIN data),
                   totalRequests |-> Cardinality(DOMAIN data),
                   completedPurchases |->
                      Cardinality({i \in DOMAIN data : data[i].status = "comprado"}),
                   rejectedRequests |->
                      Cardinality({i \in DOMAIN data : data[i].status = "reprovado"})],
        chartData |-> IF unassignedSpending > 0
                      THEN Append(formattedChartData,
                                  [name |-> "Nao Informada", value |-> unassignedSpending])
                      ELSE formattedChartData]

\* the read of DashboardsPage's mount effect answers: the figures are
\* computed from the list, or the error is shown
FetchAndCalculateStats(c) ==
    /\ session[c] # NoSession
    /\ view[c] = "dashboards"
    /\ dashboard[c].isLoading
    /\ \/ /\ requests' = [requests EXCEPT ![c] = GetPurchaseRequests(store)]
          /\ dashboard' = [dashboard EXCEPT ![c] = CalculateStats(GetPurchaseRequests(store))]
          /\ faults' = faults
       \/ /\ faults < MaxFaults
          /\ faults' = faults + 1
          /\ dashboard' = [dashboard EXCEPT ![c] = [@ EXCEPT !.isLoading = FALSE, !.error = TRUE]]
          /\ requests' = requests
    /\ UNCHANGED <<users, accounts, store, invoices, now, roleChanges, notifs, relay, listing,
                   session, screen, storage, isLoading, view, formData, modalData, submitStatus,
                   pageError, pc, badges, popup>>

(* ------------------------------ invoices ------------------------------ *)
\* file.type of a PDF
PdfType == "application/pdf"

\* the files picked in the file input. A PDF is given by the JPEG pages
\* compressPdfToJpegArray renders from it (<<i>> is the base64 text of page
\* i), any other file by the base64 part of its data URL (<<>> is the empty
\* text); big marks a file above 5 MB
FileInputs ==
    {[type |-> PdfType, big |-> FALSE, content |-> [i \in 1..n |-> <<i>>]] : n \in 0..MaxPages}
    \cup {[type |-> t, big |-> FALSE, content |-> <<b>>] :
             t \in {"image/png", ""}, b \in {<<0>>}}
    \cup {[type |-> "image/png", big |-> FALSE, content |-> << <<>> >>],
          [type |-> "image/png", big |-> TRUE, content |-> << <<0>> >>]}

\* handleFileChange: invoicePayload, or the error thrown while building it
InvoicePayload(file) ==
    IF file.type = PdfType
    THEN IF Len(file.content) = 0
         THEN [ok |-> FALSE, message |-> "Falha ao processar o arquivo PDF."]
         ELSE [ok |-> TRUE,
               invoice |-> [pages |-> file.content, mimeType |-> "image/jpeg"]]
    ELSE IF file.content[1] = <<>>
         THEN [ok |-> FALSE, message |-> "Erro ao processar o arquivo selecionado."]
         ELSE [ok |-> TRUE,
               invoice |-> [pages |-> <<file.content[1]>>,
                            mimeType |-> IF file.type = "" THEN "image/jpeg" ELSE file.type]]

\* uploadAndLinkInvoice: the check made before any write
HasPages(invoice) == Len(invoice.pages) > 0

\* uploadAndLinkInvoice: the body of the document PATCH (originalName and
\* updatedAt, which getInvoice never reads, are left out)
InvoiceDocument(invoice) ==
    [fields |->
        [mimeType |-> [stringValue |-> invoice.mimeType],
         pages |-> [arrayValue |->
                       [values |-> [i \in 1..Len(invoice.pages) |->
                                       [stringValue |-> invoice.pages[i]]]]]]]

\* the document PATCH without an update mask: the stored document is replaced
PutInvoice(docs, id, invoice) ==
    [i \in DOMAIN docs \cup {id} |->
        IF i = id THEN InvoiceDocument(invoice) ELSE docs[i]]

\* a reader that shows the first page only
GetInvoiceFirstPage(docs, id) ==
    IF id \notin DOMAIN docs
    THEN [ok |-> FALSE, message |-> "Nota fiscal nao encontrada."]
    ELSE [ok |-> TRUE, mimeType |-> docs[id].fields.mimeType.stringValue,
          pages |-> <<docs[id].fields.pages.arrayValue.values[1].stringValue>>]

\* databaseService.getInvoice on an answered read
GetInvoice(docs, id) ==
    IF id \notin DOMAIN docs
    THEN [ok |-> FALSE, message |-> "Nota fiscal nao encontrada."]
    ELSE LET fields == docs[id].fields
         IN IF "mimeType" \notin DOMAIN fields \/ fields.mimeType.stringValue = ""
            THEN [ok |-> FALSE,
                  message |-> "Formato da nota fiscal invalido no banco de dados."]
            ELSE LET mimeType == fields.mimeType.stringValue
                     values == IF "pages" \in DOMAIN fields
                               THEN fields.pages.arrayValue.values ELSE <<>>
                     mapped == [i \in 1..Len(values) |-> values[i].stringValue]
                     pageValues == SelectSeq(mapped, LAMBDA value : value # <<>>)
                 IN IF Len(pageValues) > 0
                    THEN [ok |-> TRUE, mimeType |-> mimeType, pages |-> pageValues]
                    ELSE IF "invoiceData" \in DOMAIN fields
                            /\ fields.invoiceData.stringValue # <<>>
                    THEN [ok |-> TRUE, mimeType |-> mimeType,
                          pages |-> <<fields.invoiceData.stringValue>>]
                    ELSE [ok |-> FALSE,
                          message |-> "Nenhuma pagina encontrada para esta nota fiscal."]

\* the preview window handleViewInvoice writes
Preview(pages, mimeType) == [kind |-> "preview", pages |-> pages, mimeType |-> mimeType]

\* the upload button of a row of the historico tab, then the file input:
\* handleFileChange up to the first awaited write of uploadAndLinkInvoice
IssueUpload(c, id, file) ==
    /\ view[c] = "setor_compras"
    /\ session[c] # NoSession
    /\ ~pageError[c]
    /\ pc[c] = Idle
    /\ id \in DOMAIN requests[c]
    /\ requests[c][id].status = "comprado"
    /\ LET payload == InvoicePayload(file)
       IN IF file.big
          THEN /\ popup' = [popup EXCEPT ![c] =
                     Alert("O arquivo e muito grande. O limite e de 5MB.", "")]
               /\ pc' = pc
          ELSE IF ~payload.ok
          THEN /\ popup' = [popup EXCEPT ![c] = Alert("Falha no upload: ", payload.message)]
               /\ pc' = pc
          ELSE IF ~HasPages(payload.invoice)
          THEN /\ popup' = [popup EXCEPT ![c] =
                     Alert("Falha no upload: ",
                           "Nenhuma pagina foi processada para a nota fiscal.")]
               /\ pc' = pc
          ELSE /\ pc' = [pc EXCEPT ![c] =
                     [op |-> "upload", id |-> id, invoice |-> payload.invoice]]
               /\ popup' = popup
    /\ UNCHANGED <<storeVars, session, screen, storage, isLoading, view, formData, modalData, dashboard, submitStatus, requests,
                   pageError, badges>>

\* an upload that issues the flag PATCH whatever the document write answered
UploadSavedUnchecked(c) ==
    /\ pc[c].op = "upload"
    /\ pc' = [pc EXCEPT ![c] = [op |-> "link", id |-> pc[c].id, invoice |-> pc[c].invoice]]
    /\ \/ /\ invoices' = PutInvoice(invoices, pc[c].id, pc[c].invoice)
          /\ faults' = faults
       \/ /\ faults < MaxFaults
          /\ faults' = faults + 1
          /\ invoices' = invoices
    /\ UNCHANGED <<users, accounts, store, now, roleChanges, notifs, relay, listing, session, screen, storage, isLoading, view,
                   formData, modalData, dashboard, submitStatus, requests, pageError, badges, popup>>

\* uploadAndLinkInvoice step 1 answers: the invoice document is written and
\* the flag PATCH is issued, or the failure is alerted
UploadSaved(c) ==
    /\ pc[c].op = "upload"
    /\ \/ /\ invoices' = PutInvoice(invoices, pc[c].id, pc[c].invoice)
          /\ pc' = [pc EXCEPT ![c] = [op |-> "link", id |-> pc[c].id, invoice |-> pc[c].invoice]]
          /\ faults' = faults
          /\ popup' = popup
       \/ /\ faults < MaxFaults
          /\ faults' = faults + 1
          /\ pc' = [pc EXCEPT ![c] = Idle]
          /\ invoices' = invoices
          /\ popup' = [popup EXCEPT ![c] =
                Alert("Falha no upload: ", "Falha ao salvar a nota fiscal no Firestore.")]
    /\ UNCHANGED <<users, accounts, store, now, roleChanges, notifs, relay, listing,
                   session, screen, storage, isLoading, view, formData, modalData, dashboard, submitStatus, requests, pageError, badges>>

\* an upload that deletes the invoice document when the flag PATCH fails
UploadLinkedRollback(c) ==
    /\ pc[c].op = "link"
    /\ pc' = [pc EXCEPT ![c] = Idle]
    /\ LET flags == [hasInvoice |-> TRUE, invoicePagesCount |-> Len(pc[c].invoice.pages)]
       IN \/ /\ store' = [store EXCEPT ![pc[c].id] = Patch(@, flags)]
             /\ requests' = [requests EXCEPT ![c][pc[c].id] = Spread(@, flags)]
             /\ UNCHANGED <<faults, popup, invoices>>
          \/ /\ faults < MaxFaults
             /\ faults' = faults + 1
             /\ invoices' = [i \in DOMAIN invoices \ {pc[c].id} |-> invoices[i]]
             /\ popup' = [popup EXCEPT ![c] =
                   Alert("Falha no upload: ",
                         "Falha ao vincular a nota fiscal no Realtime DB.")]
             /\ UNCHANGED <<store, requests>>
    /\ UNCHANGED <<users, accounts, now, roleChanges, notifs, relay, listing,
                   session, screen, storage, isLoading, view, formData, modalData, dashboard, submitStatus, pageError, badges>>

\* uploadAndLinkInvoice step 2 answers: the flag PATCH on the request, then
\* the rest of handleFileChange
UploadLinked(c) ==
    /\ pc[c].op = "link"
    /\ pc' = [pc EXCEPT ![c] = Idle]
    /\ LET flags == [hasInvoice |-> TRUE, invoicePagesCount |-> Len(pc[c].invoice.pages)]
       IN \/ /\ store' = [store EXCEPT ![pc[c].id] = Patch(@, flags)]
             /\ requests' = [requests EXCEPT ![c][pc[c].id] = Spread(@, flags)]
             /\ UNCHANGED <<faults, popup>>
          \/ /\ faults < MaxFaults
             /\ faults' = faults + 1
             /\ popup' = [popup EXCEPT ![c] =
                   Alert("Falha no upload: ",
                         "Falha ao vincular a nota fiscal no Realtime DB.")]
             /\ UNCHANGED <<store, requests>>
    /\ UNCHANGED <<users, accounts, invoices, now, roleChanges, notifs, relay, listing,
                   session, screen, storage, isLoading, view, formData, modalData, dashboard, submitStatus, pageError, badges>>

\* the Visualizar button of a row that shows an invoice: handleViewInvoice
\* with the read of getInvoice answered
ViewInvoice(c, id) ==
    /\ view[c] = "setor_compras"
    /\ session[c] # NoSession
    /\ ~pageError[c]
    /\ pc[c] = Idle
    /\ id \in DOMAIN requests[c]
    /\ requests[c][id].status = "comprado"
    /\ "hasInvoice" \in DOMAIN requests[c][id]
    /\ requests[c][id].hasInvoice
    /\ \/ /\ popup' = [popup EXCEPT ![c] =
                Alert("Permita pop-ups para visualizar a nota fiscal.", "")]
          /\ faults' = faults
       \/ /\ LET got == GetInvoice(invoices, id)
             IN popup' = [popup EXCEPT ![c] =
                   IF got.ok
                   THEN Preview(got.pages, got.mimeType)
                   ELSE Alert("Falha ao buscar nota fiscal: ", got.message)]
          /\ faults' = faults
       \/ /\ faults < MaxFaults
          /\ faults' = faults + 1
          /\ popup' = [popup EXCEPT ![c] =
                Alert("Falha ao buscar nota fiscal: ", "Nota fiscal nao encontrada.")]
    /\ UNCHANGED <<users, accounts, store, invoices, now, roleChanges, notifs, relay, listing, session, screen, storage, isLoading,
                   view, formData, modalData, dashboard, submitStatus, requests, pageError, pc, badges>>

(* ------------------------------ behaviours ---------------------------- *)
\* the two forms submitted in the lifecycle specification: a product without
\* a link and a service with a referral, both complete
SampleForms(u) ==
    {Spread(InitialForm(u), [unidade |-> "Unidade 1", urgencia |-> "Alto", tipo |-> "produto",
                             nomeProduto |-> "Papel A4", quantidadeProduto |-> "3"]),
     Spread(InitialForm(u), [unidade |-> "Unidade 1", urgencia |-> "Alto", tipo |-> "servico",
                             descricaoServico |-> "Pintura", querIndicar |-> "sim",
                             nomeIndicado |-> "Joao"])}

\* the file uploaded in the lifecycle specification: a one-page image
SampleFiles == {[type |-> "image/png", big |-> FALSE, content |-> << <<0>> >>]}

\* the whole system
Next ==
    \/ \E c \in Clients, email \in TypedEmails, password \in Passwords :
          IssueSignIn(c, email, password)
    \/ \E c \in Clients : SignInDone(c)
    \/ \E c \in Clients : Reload(c)
    \/ \E c \in Clients : RestoreSession(c)
    \/ \E c \in Clients, v \in {"login", "signup"} : SwitchAuthView(c, v)
    \/ \E c \in Clients, email \in EmailTexts : TypeEmail(c, email)
    \/ \E c \in Clients, email \in TypedEmails, password \in Passwords :
          IssueSignUp(c, email, password)
    \/ \E c \in Clients : SignUpRead(c)
    \/ \E c \in Clients : SignUpPut(c)
    \/ \E c \in Clients : SignUpMailed(c)
    \/ \E c \in Clients, rightCode \in BOOLEAN : IssueVerify(c, rightCode)
    \/ \E c \in Clients : VerifyDone(c)
    \/ \E c \in Clients : Logout(c)
    \/ \E c \in Clients, v \in Views : SetActiveView(c, v)
    \/ \E c \in Clients, u \in Users, r \in Roles : HandleRoleChange(c, u, r)
    \/ \E c \in Clients : \E f \in FormStates(session[c].uid) : Submit(c, f)
    \/ \E c \in Clients : SubmitDone(c)
    \/ \E id \in ReqIds : NotifyApprovers(id)
    \/ \E c \in Clients, id \in ReqIds : IssueApprove(c, id)
    \/ \E c \in Clients, id \in ReqIds, j \in Justifications : IssueReject(c, id, j)
    \/ \E c \in Clients : StatusDone(c)
    \/ \E c \in Clients, id \in ReqIds :
          \E pd \in ProdutoInputs \cup ServicoInputs :
             IssueConfirm(c, id, pd)
    \/ \E c \in Clients : ConfirmDone(c)
    \/ \E c \in Clients, id \in ReqIds, file \in FileInputs : IssueUpload(c, id, file)
    \/ \E c \in Clients : UploadSaved(c)
    \/ \E c \in Clients : UploadLinked(c)
    \/ \E c \in Clients, id \in ReqIds : ViewInvoice(c, id)
    \/ \E c \in Clients : FetchCounts(c)
    \/ \E m \in BagToSet(relay.outbox) : RelayAnswers(m)
    \/ \E c \in Clients, id \in ReqIds : OpenPurchaseModal(c, id)
    \/ \E c \in Clients : CloseModal(c)
    \/ \E c \in Clients, name \in ValueFields, key \in EditKeys :
          HandleCurrencyChange(c, name,
             Edited(IF name \in DOMAIN modalData[c] THEN modalData[c][name] ELSE <<>>, key))
    \/ \E c \in Clients, name \in {"linkCotacao1", "linkCotacao2", "previsaoChegada",
                                      "dataRealizacao"} :
          \E value \in FieldInputs(name) : HandleChange(c, name, value)
    \/ \E c \in Clients, id \in ReqIds : IssueConfirm(c, id, modalData[c])
    \/ \E c \in Clients : FetchAndCalculateStats(c)

Spec == Init /\ [][Next]_vars

\* The request lifecycle: an admin (c1) and an approver (c2) are signed in and
\* work on the form, the approval page and the purchasing page.
InitFlow == Boot([c \in Clients |-> IF c = "c1" THEN "ana" ELSE "bia"], NoRequests)

NextFlow ==
    \/ \E c \in Clients, v \in {"formulario", "aprovar_compras", "setor_compras"} :
          SetActiveView(c, v)
    \/ \E c \in Clients : \E f \in SampleForms(session[c].uid) : Submit(c, f)
    \/ \E c \in Clients : SubmitDone(c)
    \/ \E c \in Clients, id \in ReqIds : IssueApprove(c, id)
    \/ \E c \in Clients, id \in ReqIds, j \in Justifications : IssueReject(c, id, j)
    \/ \E c \in Clients : StatusDone(c)
    \/ \E c \in Clients, id \in ReqIds :
          \E pd \in ProdutoInputs \cup ServicoInputs :
             IssueConfirm(c, id, pd)
    \/ \E c \in Clients : ConfirmDone(c)
    \/ \E c \in Clients, id \in ReqIds, file \in SampleFiles : IssueUpload(c, id, file)
    \/ \E c \in Clients : UploadSaved(c)
    \/ \E c \in Clients : UploadLinked(c)

SpecFlow == InitFlow /\ [][NextFlow]_vars

\* Validation and submission: one signed-in admin (c1) fills the form in
\* every way the inputs allow and reads the list back on the approval page;
\* the tree already holds an old request.
InitForm == Boot([c \in Clients |-> IF c = "c1" THEN "ana" ELSE ""], 1 :> OldRequest)

NextForm ==
    \/ \E c \in Clients, v \in {"formulario", "aprovar_compras"} : SetActiveView(c, v)
    \/ \E c \in Clients : \E f \in FormStates(session[c].uid) : Submit(c, f)
    \/ \E c \in Clients : SubmitDone(c)
    \/ \E id \in ReqIds : NotifyApprovers(id)

SpecForm == InitForm /\ [][NextForm]_vars

\* Roles: the admin (c1) changes roles in the admin panel while the approver
\* (c2) keeps the session it signed in with; the tree already holds an old
\* request.
InitAdmin == Boot([c \in Clients |-> IF c = "c1" THEN "ana" ELSE "bia"], 1 :> OldRequest)

NextAdmin ==
    \/ \E c \in Clients, v \in Views : SetActiveView(c, v)
    \/ \E c \in Clients, u \in Users, r \in Roles : HandleRoleChange(c, u, r)
    \/ \E c \in Clients : \E f \in SampleForms(session[c].uid) : Submit(c, f)
    \/ \E c \in Clients : SubmitDone(c)
    \/ \E id \in ReqIds : NotifyApprovers(id)
    \/ \E c \in Clients, id \in ReqIds : IssueApprove(c, id)
    \/ \E c \in Clients : StatusDone(c)
    \/ \E c \in Clients, id \in ReqIds :
          \E pd \in ProdutoInputs \cup ServicoInputs :
             IssueConfirm(c, id, pd)
    \/ \E c \in Clients : ConfirmDone(c)

SpecAdmin == InitAdmin /\ [][NextAdmin]_vars

\* Sidebar counts: the admin (c1) works on the approval page of a tree of
\* old requests while App's fetchCounts calls are answered.
InitCounts ==
    \E st \in Collections : Boot([c \in Clients |-> IF c = "c1" THEN "ana" ELSE ""], st)

NextCounts ==
    \/ \E c \in Clients : FetchCounts(c)
    \/ \E c \in Clients, v \in {"formulario", "aprovar_compras"} : SetActiveView(c, v)
    \/ \E c \in Clients, id \in ReqIds : IssueApprove(c, id)
    \/ \E c \in Clients : StatusDone(c)

SpecCounts == InitCounts /\ [][NextCounts]_vars

\* Invoices: an admin (c1) and a buyer (c2) attach, replace and view the
\* invoice of a request that is already bought.
InitInvoice == Boot([c \in Clients |-> IF c = "c1" THEN "ana" ELSE "caio"], 1 :> OldRequest)

NextInvoice ==
    \/ \E c \in Clients, v \in {"formulario", "setor_compras"} : SetActiveView(c, v)
    \/ \E c \in Clients, id \in ReqIds, file \in FileInputs : IssueUpload(c, id, file)
    \/ \E c \in Clients : UploadSaved(c)
    \/ \E c \in Clients : UploadLinked(c)
    \/ \E c \in Clients, id \in ReqIds : ViewInvoice(c, id)

SpecInvoice == InitInvoice /\ [][NextInvoice]_vars

\* Notifications: one admin (c1) takes requests through the lifecycle while
\* the relay answers, or fails, each payload handed to it; the tree already
\* holds an old request.
InitRelay == Boot([c \in Clients |-> IF c = "c1" THEN "ana" ELSE ""], 1 :> OldRequest)

NextRelay ==
    \/ \E c \in Clients, v \in {"formulario", "aprovar_compras", "setor_compras"} :
          SetActiveView(c, v)
    \/ \E c \in Clients : \E f \in SampleForms(session[c].uid) : Submit(c, f)
    \/ \E c \in Clients : SubmitDone(c)
    \/ \E id \in ReqIds : NotifyApprovers(id)
    \/ \E c \in Clients, id \in ReqIds : IssueApprove(c, id)
    \/ \E c \in Clients, id \in ReqIds, j \in Justifications : IssueReject(c, id, j)
    \/ \E c \in Clients : StatusDone(c)
    \/ \E c \in Clients, id \in ReqIds :
          \E pd \in ProdutoInputs \cup ServicoInputs :
             IssueConfirm(c, id, pd)
    \/ \E c \in Clients : ConfirmDone(c)
    \/ \E m \in BagToSet(relay.outbox) : RelayAnswers(m)

SpecRelay == InitRelay /\ [][NextRelay]_vars

\* Accounts: both clients start on the login screen; ana (admin) and caio
\* (comprador) are verified, bia (aprovador) is not, and duda has no record.
AuthAccounts ==
    [u \in Users |->
        CASE u = "bia" -> [InitialAccounts[u] EXCEPT !.isVerified = FALSE]
          [] u = "duda" -> NoAccount
          [] OTHER -> InitialAccounts[u]]

InitAuth ==
    /\ accounts = AuthAccounts
    /\ users = InitialRole
    /\ store = NoRequests
    /\ invoices = [id \in {} |-> EmptyDoc]
    /\ now = 1
    /\ faults = 0
    /\ roleChanges = 0
    /\ notifs = EmptyBag
    /\ relay = [outbox |-> EmptyBag, delivered |-> EmptyBag, lost |-> EmptyBag]
    /\ listing = [id \in {} |-> "done"]
    /\ session = [c \in Clients |-> NoSession]
    /\ screen = [c \in Clients |-> FreshAuth]
    /\ storage = [c \in Clients |-> NoStorage]
    /\ isLoading = [c \in Clients |-> TRUE]
    /\ view = [c \in Clients |-> "formulario"]
    /\ formData = [c \in Clients |-> InitialForm("")]
    /\ modalData = [c \in Clients |-> EmptyDoc]
    /\ dashboard = [c \in Clients |-> InitialDashboard]
    /\ submitStatus = [c \in Clients |-> NoStatus]
    /\ requests = [c \in Clients |-> [id \in {} |-> EmptyDoc]]
    /\ pageError = [c \in Clients |-> FALSE]
    /\ pc = [c \in Clients |-> Idle]
    /\ badges = [c \in Clients |-> MountedBadges(FALSE)]
    /\ popup = [c \in Clients |-> NoPopup]

NextAuth ==
    \/ \E c \in Clients : Reload(c)
    \/ \E c \in Clients : RestoreSession(c)
    \/ \E c \in Clients, v \in {"login", "signup"} : SwitchAuthView(c, v)
    \/ \E c \in Clients, email \in TypedEmails, password \in Passwords :
          IssueSignIn(c, email, password)
    \/ \E c \in Clients : SignInDone(c)
    \/ \E c \in Clients, email \in TypedEmails, password \in Passwords :
          IssueSignUp(c, email, password)
    \/ \E c \in Clients : SignUpRead(c)
    \/ \E c \in Clients : SignUpPut(c)
    \/ \E c \in Clients : SignUpMailed(c)
    \/ \E c \in Clients, rightCode \in BOOLEAN : IssueVerify(c, rightCode)
    \/ \E c \in Clients : VerifyDone(c)
    \/ \E c \in Clients : Logout(c)

SpecAuth == InitAuth /\ [][NextAuth]_vars

\* Identifiers: e-mails are typed into the Auth forms of two clients.
InitEmail == Boot([c \in Clients |-> ""], NoRequests)

NextEmail == \E c \in Clients, email \in EmailTexts : TypeEmail(c, email)

SpecEmail == InitEmail /\ [][NextEmail]_vars

\* The purchase modal: a buyer (c1) opens it on the one approved request of
\* the tree, a product or a service, types amounts into the value field key
\* by key, fills the other inputs and confirms.
ApprovedProduto ==
    Patch(RequestData(Spread(InitialForm("duda"),
                             [unidade |-> "Unidade 1", urgencia |-> "Alto", tipo |-> "produto",
                              nomeProduto |-> "Papel A4", quantidadeProduto |-> "3"]),
                      "duda", 0),
          UpdatePayload("aprovado", "undefined", 0))

InitCurrency ==
    \E request \in {ApprovedProduto, RequestIn("aprovado")} :
       Boot([c \in Clients |-> IF c = "c1" THEN "caio" ELSE ""], 1 :> request)

NextCurrency ==
    \/ \E c \in Clients : SetActiveView(c, "setor_compras")
    \/ \E c \in Clients, id \in ReqIds : OpenPurchaseModal(c, id)
    \/ \E c \in Clients : CloseModal(c)
    \/ \E c \in Clients, name \in ValueFields, key \in EditKeys :
          HandleCurrencyChange(c, name,
             Edited(IF name \in DOMAIN modalData[c] THEN modalData[c][name] ELSE <<>>, key))
    \/ \E c \in Clients, name \in {"linkCotacao1", "previsaoChegada", "dataRealizacao"},
          value \in {"", "https://cotacao/1", "2025-02-01", "2025-02-03"} :
          HandleChange(c, name, value)
    \/ \E c \in Clients, id \in ReqIds : IssueConfirm(c, id, modalData[c])
    \/ \E c \in Clients : ConfirmDone(c)

SpecCurrency == InitCurrency /\ [][NextCurrency]_vars

\* The dashboard: an admin (c1) opens the dashboards page over trees of up
\* to MaxReq requests, bought or rejected, of a listed or an unlisted unit,
\* without a stored value or with one of R$ 9,00, R$ 10,50 and R$ 1.234,56.
StoredValues == {900, 1050, 123456}

\* value 0 stands for a request without a value field
DashboardRequests ==
    {Spread([k \in DOMAIN RequestIn(status) \ {"valorServico"} |-> RequestIn(status)[k]],
            IF value = 0 THEN [unidade |-> unidade]
            ELSE [unidade |-> unidade, valorServico |-> value]) :
        status \in {"comprado", "reprovado"}, unidade \in {"Unidade 1", "Unidade 2", "Matriz"},
        value \in StoredValues \cup {0}}

DashboardCollections ==
    UNION {[1..n -> DashboardRequests] : n \in 0..MaxReq}

InitDashboard ==
    \E st \in DashboardCollections :
       Boot([c \in Clients |-> IF c = "c1" THEN "ana" ELSE ""], st)

NextDashboard ==
    \/ \E c \in Clients, v \in {"formulario", "dashboards"} : SetActiveView(c, v)
    \/ \E c \in Clients : FetchAndCalculateStats(c)

SpecDashboard == InitDashboard /\ [][NextDashboard]_vars

\* Navigation: each client starts signed out or signed in as any user; the
\* clients navigate over every view, sign out and in again, reload, and an
\* admin changes roles meanwhile. The tree holds an old request.
InitViews ==
    \E who \in [Clients -> Users \cup {""}] : Boot(who, 1 :> OldRequest)

NextViews ==
    \/ \E c \in Clients, v \in Views : SetActiveView(c, v)
    \/ \E c \in Clients, u \in Users, r \in Roles : HandleRoleChange(c, u, r)
    \/ \E c \in Clients : Logout(c)
    \/ \E c \in Clients, email \in TypedEmails, password \in Passwords :
          IssueSignIn(c, email, password)
    \/ \E c \in Clients : SignInDone(c)
    \/ \E c \in Clients : Reload(c)
    \/ \E c \in Clients : RestoreSession(c)

SpecViews == InitViews /\ [][NextViews]_vars

TypeOK ==
    /\ now \in 1..(MaxTime + 1)
    /\ \A id \in DOMAIN store : store[id].status \in StatusSet
    /\ faults \in 0..MaxFaults
    /\ DOMAIN store \subseteq Nat

(* ------------------------- lifecycle properties ----------------------- *)
\* a status write of client c reaches its answer in this step
Completes(c, ops) == pc[c].op \in ops /\ pc'[c] = Idle

\* C1: Approve or Reject of a request whose stored status is not pendente
\* fails with a transition error and leaves the store unchanged.
C1_DecisionNeedsPendente ==
    [][\A c \in Clients :
          (Completes(c, {"approve", "reject"}) /\ store[pc[c].id].status # "pendente")
             => (pageError'[c] /\ store' = store)]_vars

\* C2: ConfirmPurchase of a request whose stored status is not aprovado fails
\* with a transition error and leaves the store unchanged.
C2_PurchaseNeedsAprovado ==
    [][\A c \in Clients :
          (Completes(c, {"confirm"}) /\ store[pc[c].id].status # "aprovado")
             => (pageError'[c] /\ store' = store)]_vars

\* the status changes the lifecycle allows
LegalMoves == {<<"pendente", "aprovado">>, <<"pendente", "reprovado">>,
               <<"aprovado", "comprado">>}

\* C3: reprovado and comprado are terminal, and a stored status only ever
\* changes along pendente -> aprovado, pendente -> reprovado, aprovado -> comprado.
C3_TerminalStatuses ==
    [][\A id \in DOMAIN store :
          /\ store[id].status \in {"reprovado", "comprado"}
                => store'[id].status = store[id].status
          /\ store'[id].status # store[id].status
                => <<store[id].status, store'[id].status>> \in LegalMoves]_vars

\* C4: Approve or ConfirmPurchase invoked by an actor whose role is user
\* fails with an authorization error and leaves the store unchanged.
C4_UserCannotDecide ==
    [][\A c \in Clients :
          (Completes(c, {"approve", "confirm"}) /\ SignInRole(users[session[c].uid]) = "user")
             => (pageError'[c] /\ store' = store)]_vars

\* C5: every stored request has a status out of pendente, aprovado,
\* reprovado, comprado; the payload of ConfirmPurchase carries status
\* comprado whatever fulfilment fields are merged with it.
C5_StatusInSet ==
    /\ \A id \in DOMAIN store :
          "status" \in DOMAIN store[id] /\ store[id].status \in StatusSet
    /\ \A c \in Clients :
          pc[c].op = "confirm" =>
             /\ pc[c].payload.status = "comprado"
             /\ \A k \in DOMAIN pc[c].purchaseData :
                   pc[c].payload[k] = pc[c].purchaseData[k]

\* a bought product request with its fulfilment fields merged in
C5_Witness ==
    \E id \in DOMAIN store :
       /\ store[id].status = "comprado"
       /\ "valorProduto" \in DOMAIN store[id]
       /\ store[id].valorProduto = 123456

\* the transition timestamps and the one that belongs to each written status
Stamps == {"approvedAt", "rejectedAt", "purchasedAt"}
StampOf(status) ==
    CASE status = "aprovado" -> "approvedAt"
      [] status = "reprovado" -> "rejectedAt"
      [] status = "comprado" -> "purchasedAt"
      [] OTHER -> "none"

\* C6: a status write that is applied sets the timestamp of the status it
\* writes and no other one; no step of any operation sets another transition
\* timestamp or removes one that is stored.
C6_OneStampPerWrite ==
    [][\A id \in DOMAIN store' :
          LET old == IF id \in DOMAIN store THEN store[id] ELSE EmptyDoc
              new == store'[id]
              written == {k \in Stamps \cap DOMAIN new :
                             k \notin DOMAIN old \/ new[k] # old[k]}
              applied == \E c \in Clients :
                            /\ Completes(c, {"approve", "reject", "confirm"})
                            /\ pc[c].id = id
                            /\ faults' = faults
          IN /\ (Stamps \cap DOMAIN old) \subseteq DOMAIN new
             /\ IF applied THEN written = {StampOf(new.status)} ELSE written = {}]_vars

\* a request approved, bought and given an invoice: both timestamps are there
C6_Witness ==
    \E id \in DOMAIN store :
       /\ {"approvedAt", "purchasedAt", "hasInvoice"} \subseteq DOMAIN store[id]
       /\ store[id].approvedAt >= 1
       /\ store[id].purchasedAt > store[id].approvedAt

\* C7: the store takes every Approve and Reject that reaches it, whatever the
\* stored status is by then: the request ends with the status of the write
\* applied last and the client is shown no error.
C7_LastWriteWins ==
    [][\A c \in Clients :
          (Completes(c, {"approve", "reject"}) /\ faults' = faults)
             => /\ store'[pc[c].id].status = pc[c].status
                /\ ~pageError'[c]
                /\ requests'[c][pc[c].id].status = pc[c].status]_vars

\* an approval and a rejection of the same request were both applied without
\* any failed call, the approval last
C7_Witness ==
    \E id \in DOMAIN store :
       /\ faults = 0
       /\ store[id].status = "aprovado"
       /\ {"approvedAt", "rejectedAt"} \subseteq DOMAIN store[id]
       /\ store[id].approvedAt > store[id].rejectedAt
       /\ \A c \in Clients : pc[c] = Idle /\ ~pageError[c]

(* ------------------------- submission properties ---------------------- *)
\* the constraints of the form that f violates, by the label reported for each
Violated(f) ==
    {l \in {"Unidade", "Grau de urgencia", "Tipo", "Data e Hora do Prazo",
            "Descricao do servico", "Nome de quem quer indicar",
            "Produto (nome)", "Quantidade", "Link do produto"} :
        \/ l = "Unidade" /\ f.unidade = ""
        \/ l = "Grau de urgencia" /\ f.urgencia = ""
        \/ l = "Tipo" /\ f.tipo = ""
        \/ l = "Data e Hora do Prazo" /\ f.prazo = "sim" /\ f.prazoDataHora = ""
        \/ l = "Descricao do servico" /\ f.tipo = "servico" /\ f.descricaoServico = ""
        \/ l = "Nome de quem quer indicar" /\ f.tipo = "servico"
              /\ f.querIndicar = "sim" /\ f.nomeIndicado = ""
        \/ l = "Produto (nome)" /\ f.tipo = "produto" /\ f.nomeProduto = ""
        \/ l = "Quantidade" /\ f.tipo = "produto" /\ f.quantidadeProduto = ""
        \/ l = "Link do produto" /\ f.tipo = "produto"
              /\ f.querLink = "sim" /\ f.linkProduto = ""}

\* client c presses the submit button of its form in this step
Submits(c) ==
    /\ view[c] = "formulario" /\ view'[c] = "formulario"
    /\ pc[c] = Idle
    /\ \/ formData'[c] # formData[c]
       \/ submitStatus'[c] # submitStatus[c]
       \/ pc'[c] # pc[c]

\* C8: a submission reports exactly the constraints its form violates, once
\* each; when there is any, nothing is written, no call is put in flight and
\* no notification is sent; when there is none, the write is issued.
C8_ValidationReportsViolated ==
    [][\A c \in Clients :
          Submits(c) =>
             IF Violated(formData'[c]) # {}
             THEN /\ submitStatus'[c].type = "error"
                  /\ Range(submitStatus'[c].errors) = Violated(formData'[c])
                  /\ Len(submitStatus'[c].errors) = Cardinality(Violated(formData'[c]))
                  /\ pc'[c] = Idle
                  /\ store' = store
                  /\ notifs' = notifs
                  /\ listing' = listing
             ELSE /\ pc'[c].op = "submit"
                  /\ submitStatus'[c].type # "error"]_vars

\* a service request with the referral radio on sim and no name: the one
\* violated constraint is reported and the tree still holds only the old request
C8_Witness ==
    \E c \in Clients :
       /\ formData[c].tipo = "servico"
       /\ formData[c].descricaoServico # ""
       /\ formData[c].querIndicar = "sim"
       /\ formData[c].nomeIndicado = ""
       /\ submitStatus[c].type = "error"
       /\ submitStatus[c].errors = <<"Nome de quem quer indicar">>
       /\ DOMAIN store = {1}

\* C9: a successful submission adds exactly one request and changes no other;
\* read back through the listing, the new request has every field of the
\* submitted form with its value, status pendente, a creation time and its
\* key as id; a page that fetches the list shows the stored requests so.
C9_SubmitRoundTrip ==
    [][/\ \A c \in Clients :
            (Completes(c, {"submit"}) /\ faults' = faults) =>
               \E id \in DOMAIN store' \ DOMAIN store :
                  /\ DOMAIN store' = DOMAIN store \cup {id}
                  /\ \A j \in DOMAIN store : store'[j] = store[j]
                  /\ LET r == GetPurchaseRequests(store')[id]
                     IN /\ \A k \in DOMAIN formData[c] :
                              k \in DOMAIN r /\ r[k] = formData[c][k]
                        /\ "status" \in DOMAIN r /\ r.status = "pendente"
                        /\ "createdAt" \in DOMAIN r /\ r.createdAt \in 1..(now - 1)
                        /\ "id" \in DOMAIN r /\ r.id = id
       /\ \A c \in Clients :
            (view'[c] = "aprovar_compras" /\ view[c] # "aprovar_compras" /\ ~pageError'[c]) =>
               /\ DOMAIN requests'[c] = DOMAIN store
               /\ \A id \in DOMAIN store :
                     /\ requests'[c][id].id = id
                     /\ \A k \in DOMAIN store[id] :
                           k \in DOMAIN requests'[c][id]
                           /\ requests'[c][id][k] = store[id][k]]_vars

\* the approval page lists a freshly submitted product request next to the
\* old one
C9_Witness ==
    \E c \in Clients :
       /\ view[c] = "aprovar_compras"
       /\ DOMAIN requests[c] = {1, 2}
       /\ requests[c][1] = Spread([id |-> 1], OldRequest)
       /\ requests[c][2].id = 2
       /\ requests[c][2].status = "pendente"
       /\ requests[c][2].createdAt >= 1
       /\ requests[c][2].nomeProduto = "Papel A4"
       /\ requests[c][2].linkProduto = "https://loja/papel"

(* ------------------------ notification properties --------------------- *)
\* how many payloads of the given type, request and addressee were handed over
Sent(bag, type, id, u) ==
    CopiesIn([notificationType |-> type, id |-> id, to |-> u], bag)

\* C10 as stated: once the submission of a request has run to its end, one
\* pedido_recebido went to the requester and one nova_solicitacao_aprovacao to
\* every admin and aprovador, none to anyone else (roles left as they were).
C10_EveryApproverNotified ==
    \A id \in DOMAIN store :
       (store[id].createdAt >= 1 /\ listing[id] # "pending" /\ roleChanges = 0) =>
          \A u \in Users :
             /\ Sent(notifs, "pedido_recebido", id, u)
                   = IF u = store[id].email THEN 1 ELSE 0
             /\ Sent(notifs, "nova_solicitacao_aprovacao", id, u)
                   = IF users[u] \in {"admin", "aprovador"} THEN 1 ELSE 0

\* C10: the step that stores a new request hands over one pedido_recebido
\* for its requester; the step in which its approver listing succeeds hands
\* over one nova_solicitacao_aprovacao for every user stored as admin or
\* aprovador at that moment; no other step, and no failed listing, hands over
\* either kind for anyone.
C10_NotifiedWhenListed ==
    [][\A id \in ReqIds, u \in Users :
          /\ Sent(notifs', "pedido_recebido", id, u) - Sent(notifs, "pedido_recebido", id, u)
                = IF id \notin DOMAIN store /\ id \in DOMAIN store' /\ store'[id].email = u
                  THEN 1 ELSE 0
          /\ Sent(notifs', "nova_solicitacao_aprovacao", id, u)
                - Sent(notifs, "nova_solicitacao_aprovacao", id, u)
                = IF /\ id \in DOMAIN listing
                     /\ listing[id] = "pending"
                     /\ listing'[id] = "done"
                     /\ users[u] \in {"admin", "aprovador"}
                  THEN 1 ELSE 0]_vars

\* caio was made aprovador before the listing of request 2 was read: ana, bia
\* and caio got the approver mail, duda none, ana the receipt
C10_Witness ==
    /\ 2 \in DOMAIN listing
    /\ listing[2] = "done"
    /\ users["caio"] = "aprovador"
    /\ Sent(notifs, "pedido_recebido", 2, store[2].email) = 1
    /\ \A u \in {"ana", "bia", "caio"} : Sent(notifs, "nova_solicitacao_aprovacao", 2, u) = 1
    /\ Sent(notifs, "nova_solicitacao_aprovacao", 2, "duda") = 0

(* -------------------------- decision properties ----------------------- *)
\* C11: an applied Reject leaves the request reprovado with a rejectedAt of
\* the time of the call and the justification the actor typed (the empty
\* string when nothing was typed); an applied Approve leaves it aprovado with
\* an approvedAt of the time of the call and neither writes nor changes a
\* justification.
C11_DecisionFields ==
    [][\A c \in Clients :
          (Completes(c, {"approve", "reject"}) /\ faults' = faults) =>
             LET id == pc[c].id
                 old == store[id]
                 new == store'[id]
             IN IF pc[c].op = "reject"
                THEN /\ new.status = "reprovado"
                     /\ "rejectedAt" \in DOMAIN new
                     /\ new.rejectedAt \in old.createdAt + 1 .. now - 1
                     /\ "justification" \in DOMAIN new
                     /\ new.justification = pc[c].justification
                     /\ pc[c].justification \in Justifications
                ELSE /\ new.status = "aprovado"
                     /\ "approvedAt" \in DOMAIN new
                     /\ new.approvedAt \in old.createdAt + 1 .. now - 1
                     /\ ("justification" \in DOMAIN new) = ("justification" \in DOMAIN old)
                     /\ "justification" \in DOMAIN old
                           => new.justification = old.justification]_vars

\* one request rejected with a typed justification, another approved and
\* without any justification field
C11_Witness ==
    \E i, j \in DOMAIN store :
       /\ store[i].status = "reprovado"
       /\ store[i].justification = "fora do orcamento"
       /\ "rejectedAt" \in DOMAIN store[i]
       /\ store[j].status = "aprovado"
       /\ "approvedAt" \in DOMAIN store[j]
       /\ "justification" \notin DOMAIN store[j]

(* -------------------------- purchase properties ----------------------- *)
\* the fields a submission supplies
SubmittedFields == DOMAIN InitialForm("") \cup {"requesterUid", "createdAt"}

\* C12: an applied ConfirmPurchase leaves the request comprado with a
\* purchasedAt of the time of the call and with every fulfilment field as
\* submitted in the modal, changes no field supplied at submission, and hands
\* over exactly one notification, a pedido_a_caminho for that request.
C12_PurchaseFrame ==
    [][\A c \in Clients :
          (Completes(c, {"confirm"}) /\ faults' = faults) =>
             LET id == pc[c].id
                 old == store[id]
                 new == store'[id]
             IN /\ new.status = "comprado"
                /\ "purchasedAt" \in DOMAIN new
                /\ new.purchasedAt \in old.createdAt + 1 .. now - 1
                /\ \A k \in DOMAIN pc[c].purchaseData :
                      k \in DOMAIN new /\ new[k] = pc[c].purchaseData[k]
                /\ \A k \in SubmittedFields : k \in DOMAIN new /\ new[k] = old[k]
                /\ \A j \in DOMAIN store \ {id} : store'[j] = store[j]
                /\ BagCardinality(notifs') = BagCardinality(notifs) + 1
                /\ Sent(notifs', "pedido_a_caminho", id, old.email)
                      = Sent(notifs, "pedido_a_caminho", id, old.email) + 1]_vars

\* a bought service request: its description and referral are those of the
\* form, its value and date those of the modal, and one mail is under way
C12_Witness ==
    \E id \in DOMAIN store :
       /\ store[id].status = "comprado"
       /\ store[id].descricaoServico = "Pintura"
       /\ store[id].nomeIndicado = "Joao"
       /\ "valorServico" \in DOMAIN store[id]
       /\ store[id].dataRealizacao = "2025-02-03"
       /\ store[id].purchasedAt > store[id].createdAt
       /\ Sent(notifs, "pedido_a_caminho", id, store[id].email) = 1

\* the fulfilment data d is complete for a request of the given tipo
Fulfilled(tipo, d) ==
    IF tipo = "produto"
    THEN /\ "valorProduto" \in DOMAIN d /\ d.valorProduto \in Nat
         /\ \E k \in {"linkCotacao1", "linkCotacao2", "linkCotacao3"} :
               k \in DOMAIN d /\ d[k] # ""
         /\ "previsaoChegada" \in DOMAIN d /\ d.previsaoChegada # ""
    ELSE /\ tipo = "servico"
         /\ "valorServico" \in DOMAIN d /\ d.valorServico \in Nat
         /\ "dataRealizacao" \in DOMAIN d /\ d.dataRealizacao # ""

\* C13: whatever is left empty in the purchase modal, a ConfirmPurchase call is
\* only ever in flight with a value, a quotation link and an arrival date (for
\* a produto request) or a value and a realization date (for a servico
\* request), and every stored request that is comprado has them.
C13_PurchaseNeedsData ==
    /\ \A c \in Clients :
          pc[c].op = "confirm" =>
             /\ Fulfilled(pc[c].snapshot.tipo, pc[c].purchaseData)
             /\ Fulfilled(pc[c].snapshot.tipo, pc[c].payload)
    /\ \A id \in DOMAIN store :
          store[id].status = "comprado" => Fulfilled(store[id].tipo, store[id])

\* a bought product request with only the first quotation link filled
C13_Witness ==
    \E id \in DOMAIN store :
       /\ store[id].status = "comprado"
       /\ store[id].tipo = "produto"
       /\ store[id].linkCotacao1 = "https://cotacao/1"
       /\ store[id].linkCotacao2 = ""
       /\ store[id].previsaoChegada = "2025-02-01"
       /\ store[id].valorProduto = 123456

(* --------------------------- count properties ------------------------- *)
\* the number of stored requests in the given status
Stored(status) == Cardinality({id \in DOMAIN store : store[id].status = status})

\* C14: when a fetchCounts call is answered with the list, the sidebar shows
\* the number of stored pendente requests as pending approvals and the number
\* of stored aprovado requests as pending purchases; when the call fails, both
\* counts stay as they were; no other step changes them.
C14_DerivedCounts ==
    [][\A c \in Clients :
          IF badges[c].fetching /\ ~badges'[c].fetching /\ faults' = faults
          THEN /\ badges'[c].pendingApprovalsCount = Stored("pendente")
               /\ badges'[c].pendingPurchasesCount = Stored("aprovado")
          ELSE /\ badges'[c].pendingApprovalsCount = badges[c].pendingApprovalsCount
               /\ badges'[c].pendingPurchasesCount = badges[c].pendingPurchasesCount]_vars

\* the tree of 3 pendente, 2 aprovado, 1 reprovado and 4 comprado requests
\* counted as 3 and 2
C14_Witness ==
    /\ Stored("pendente") = 3 /\ Stored("aprovado") = 2
    /\ Stored("reprovado") = 1 /\ Stored("comprado") = 4
    /\ badges["c1"].pendingApprovalsCount = 3
    /\ badges["c1"].pendingPurchasesCount = 2
    /\ ~badges["c1"].fetching

\* counts kept through a failed call: an approval was applied after the
\* counts were taken and the call made for it failed
C14_WitnessKept ==
    /\ faults = 1
    /\ ~badges["c1"].fetching
    /\ badges["c1"].pendingApprovalsCount = Stored("pendente") + 1
    /\ badges["c1"].pendingPurchasesCount = Stored("aprovado") - 1

(* -------------------------- invoice properties ------------------------ *)
\* the files that yield an empty page sequence
EmptyFiles == {file \in FileInputs : ~file.big /\ file.type = PdfType /\ Len(file.content) = 0}

\* C15: an attach with an empty page sequence fails (alert) before anything
\* is written; otherwise the document write is issued first, with nothing
\* written yet; the flag patch is issued only in the step in which that
\* document write succeeded; a failed document write ends the call with the
\* request record (stored and local) and the documents unchanged; and the
\* request flags are written only by an answered flag patch
C15_WriteThenPatch ==
    [][\A c \in Clients :
        /\ \A id \in ReqIds, file \in EmptyFiles :
              IssueUpload(c, id, file)
                 => /\ popup'[c].kind = "alert"
                    /\ pc' = pc
                    /\ UNCHANGED <<store, invoices, requests>>
        /\ pc[c].op # "upload" /\ pc'[c].op = "upload"
              => /\ pc[c] = Idle
                 /\ Len(pc'[c].invoice.pages) > 0
                 /\ UNCHANGED <<store, invoices, requests>>
        /\ pc[c].op # "link" /\ pc'[c].op = "link"
              => /\ pc[c].op = "upload"
                 /\ faults' = faults
                 /\ pc[c].id \in DOMAIN invoices'
                 /\ invoices'[pc[c].id] = InvoiceDocument(pc[c].invoice)
                 /\ UNCHANGED <<store, requests>>
        /\ pc[c].op = "upload" /\ pc'[c] # pc[c] /\ faults' # faults
              => /\ pc'[c] = Idle
                 /\ popup'[c].kind = "alert"
                 /\ UNCHANGED <<store, invoices, requests>>
        /\ store' # store
              => \E d \in Clients : pc[d].op = "link" /\ pc'[d] = Idle /\ faults' = faults
      ]_vars

\* an empty PDF was refused for one client and a request carries the flags
\* of a completed attach
C15_Witness ==
    /\ \E c \in Clients :
          popup[c] = Alert("Falha no upload: ", "Falha ao processar o arquivo PDF.")
    /\ \E id \in DOMAIN store :
          /\ "hasInvoice" \in DOMAIN store[id]
          /\ id \in DOMAIN invoices

\* the alert of a failed flag patch
LinkFailed == Alert("Falha no upload: ", "Falha ao vincular a nota fiscal no Realtime DB.")

\* C16: when the flag patch of an attach fails after its document write
\* succeeded, the failure is alerted, the invoice document stays stored, and
\* neither the stored request nor any client's list is changed
C16_OrphanOnPatchFailure ==
    [][\A c \in Clients :
        pc[c].op = "link" /\ pc'[c] # pc[c] /\ faults' # faults
           => /\ pc'[c] = Idle
              /\ popup'[c] = LinkFailed
              /\ pc[c].id \in DOMAIN invoices'
              /\ invoices' = invoices
              /\ store' = store
              /\ requests' = requests
      ]_vars

\* an orphaned invoice: the document is stored, the flag patch failed, and
\* neither the stored request nor the caller's row carries the flags
C16_Witness ==
    \E c \in Clients, id \in DOMAIN invoices :
        /\ popup[c] = LinkFailed
        /\ pc[c] = Idle
        /\ "hasInvoice" \notin DOMAIN store[id]
        /\ id \in DOMAIN requests[c]
        /\ "hasInvoice" \notin DOMAIN requests[c][id]

\* no attach is between its first issued write and its last answer
NoAttachInFlight == \A c \in Clients : pc[c].op \notin {"upload", "link"}

\* the number of pages of a stored invoice document
StoredPages(id) == Len(invoices[id].fields.pages.arrayValue.values)

\* C17: whenever no attach is in flight, every request flagged hasInvoice has
\* an invoice document and its invoicePagesCount is that document's number
\* of pages
C17_FlagsMatchDocument ==
    NoAttachInFlight
       => \A id \in DOMAIN store :
             ("hasInvoice" \in DOMAIN store[id] /\ store[id].hasInvoice)
                => /\ id \in DOMAIN invoices
                   /\ store[id].invoicePagesCount = StoredPages(id)

\* C18: every request that has an invoice document or is flagged hasInvoice
\* has stored status comprado
C18_InvoiceOnlyOnComprado ==
    \A id \in DOMAIN store :
        \/ id \in DOMAIN invoices
        \/ ("hasInvoice" \in DOMAIN store[id] /\ store[id].hasInvoice)
        => store[id].status = "comprado"

\* the page texts and the MIME type a stored invoice document holds
StoredPageTexts(docs, id) ==
    [i \in 1..Len(docs[id].fields.pages.arrayValue.values) |->
        docs[id].fields.pages.arrayValue.values[i].stringValue]
StoredMimeType(docs, id) == docs[id].fields.mimeType.stringValue

\* the alert of a blocked preview window
PopupBlocked == Alert("Permita pop-ups para visualizar a nota fiscal.", "")

\* C19: a successful document write stores exactly the pages (same texts,
\* order and length) and MIME type of the attach it belongs to, replacing
\* whatever was stored; and every answered read of a request's invoice shows
\* exactly the pages and MIME type stored at that moment, i.e. those of the
\* latest attach
C19_AttachReadRoundTrip ==
    [][\A c \in Clients :
        /\ pc[c].op = "upload" /\ pc'[c].op = "link"
              => /\ StoredPageTexts(invoices', pc[c].id) = pc[c].invoice.pages
                 /\ StoredMimeType(invoices', pc[c].id) = pc[c].invoice.mimeType
        /\ \A id \in ReqIds :
              ViewInvoice(c, id) /\ faults' = faults /\ popup'[c] # PopupBlocked
                 => /\ id \in DOMAIN invoices
                    /\ popup'[c] = Preview(StoredPageTexts(invoices, id),
                                           StoredMimeType(invoices, id))
      ]_vars

\* both clients have read the invoice of the one request, one before and one
\* after it was replaced: a two-page JPEG invoice and a one-page PNG invoice
C19_Witness ==
    \E c, d \in Clients :
        /\ popup[c] = Preview(<< <<1>>, <<2>> >>, "image/jpeg")
        /\ popup[d] = Preview(<< <<0>> >>, "image/png")

(* --------------------------- failure properties ----------------------- *)
\* the store write client c awaits fails in this step
WriteFails(c) ==
    /\ pc[c].op \in {"submit", "approve", "reject", "confirm", "upload", "link"}
    /\ pc'[c] # pc[c]
    /\ faults' # faults

\* what the handler of the failed write shows to its user
Surfaced(c) ==
    CASE pc[c].op = "submit" -> submitStatus'[c].type = "error"
      [] pc[c].op \in {"approve", "reject"} -> pageError'[c]
      [] pc[c].op = "confirm" -> pageError'[c] /\ popup'[c].kind = "alert"
      [] OTHER -> popup'[c].kind = "alert" /\ popup'[c].message = "Falha no upload: "

\* C20: when the store write of a submission, a decision, a purchase
\* confirmation or an invoice attach fails, the handler shows the failure,
\* no client's list and no form is changed, nothing is written to the store
\* and no notification is handed to the relay or scheduled
C20_FailureBlocksLocalUpdate ==
    [][\A c \in Clients :
        WriteFails(c)
           => /\ Surfaced(c)
              /\ pc'[c] = Idle
              /\ requests' = requests
              /\ formData' = formData
              /\ notifs' = notifs
              /\ listing' = listing
              /\ store' = store
      ]_vars

\* a purchase confirmation failed: the failure is shown and the request is
\* still aprovado in the store and on the page of the client that tried
C20_Witness ==
    \E c \in Clients, id \in DOMAIN store :
        /\ faults = 1
        /\ popup[c] = Alert("Falha ao confirmar a compra. Tente novamente.", "")
        /\ pageError[c]
        /\ id \in DOMAIN requests[c]
        /\ requests[c][id].status = "aprovado"
        /\ store[id].status = "aprovado"
        /\ BagCardinality(notifs) = 2

(* ----------------------------- relay properties ----------------------- *)
\* C21: the answer of the relay to a payload, delivered or failed, changes
\* nothing but the relay's own record and takes the payload out of flight (it
\* is not sent again); the answer of an approver listing, read or failed,
\* changes neither the store nor any client; and every payload handed over is
\* fetched exactly once
C21_RelayNeverBubbles ==
    [][/\ (relay' # relay /\ notifs' = notifs)
            => /\ UNCHANGED <<users, store, invoices, listing, clientVars>>
               /\ BagCardinality(relay'.outbox) = BagCardinality(relay.outbox) - 1
               /\ BagCardinality(relay'.delivered (+) relay'.lost)
                     = BagCardinality(relay.delivered (+) relay.lost) + 1
       /\ (listing' # listing /\ store' = store)
            => UNCHANGED <<users, store, invoices, clientVars>>
       /\ notifs' = relay'.outbox (+) relay'.delivered (+) relay'.lost
      ]_vars

\* request 2 went from submission to comprado, on the store and on the
\* buyer's page, with no error shown, although its approver listing failed
\* and every one of its three notifications was lost
C21_Witness ==
    /\ 2 \in DOMAIN store
    /\ store[2].status = "comprado"
    /\ 2 \in DOMAIN requests["c1"]
    /\ requests["c1"][2].status = "comprado"
    /\ ~pageError["c1"]
    /\ popup["c1"] = NoPopup
    /\ listing[2] = "failed"
    /\ relay.outbox = EmptyBag
    /\ relay.delivered = EmptyBag
    /\ BagCardinality(relay.lost) = 3

(* ------------------------- authentication properties ------------------ *)
\* the sign-in of client c is answered in this step
SignInAnswered(c) == pc[c].op = "signin" /\ pc'[c] = Idle

\* the record the awaited sign-in of c reads has the typed password's hash
HashMatches(c) ==
    accounts[UserPath(pc[c].email)].passwordHash = Sha256(pc[c].password)

\* C22: an answered sign-in establishes a session only if the record it read
\* exists, holds the hash of the typed password and is verified, and then the
\* session is that record's; for an unverified record it establishes no
\* session, stores no user and shows an error; and a session begins only in
\* a step that answers a sign-in or restores the stored user
C22_SignInNeedsVerifiedMatch ==
    [][\A c \in Clients :
        /\ SignInAnswered(c)
              => LET u == UserPath(pc[c].email)
                 IN /\ session'[c] # NoSession
                          => /\ faults' = faults
                             /\ accounts[u].exists
                             /\ HashMatches(c)
                             /\ accounts[u].isVerified
                             /\ session'[c].uid = u
                    /\ (accounts[u].exists /\ ~accounts[u].isVerified)
                          => /\ session'[c] = NoSession
                             /\ storage'[c] = NoStorage
                             /\ screen'[c].error # <<>>
        /\ (session[c] = NoSession /\ session'[c] # NoSession)
              => SignInAnswered(c) \/ isLoading[c]
      ]_vars

\* ana is signed in on one client while the other was refused for bia's
\* unverified account, typed with the right password
C22_Witness ==
    \E c, d \in Clients :
        /\ session[c].uid = "ana"
        /\ session[d] = NoSession
        /\ storage[d] = NoStorage
        /\ screen[d].email = <<"B", "i", "a">>
        /\ screen[d].error = NotVerified
        /\ faults = 0

\* the awaited sign-in of c reads a matching record that is not verified
ReadsUnverified(c) ==
    /\ accounts[UserPath(pc[c].email)].exists
    /\ HashMatches(c)
    /\ ~accounts[UserPath(pc[c].email)].isVerified

\* C23: a sign-in that fails shows an error; it moves the Auth screen to the
\* verification view when it failed because the account is unverified, and
\* leaves it on the login view for every other failure
C23_UnverifiedGoesToVerify ==
    [][\A c \in Clients :
        (SignInAnswered(c) /\ session'[c] = NoSession)
           => /\ screen'[c].error # <<>>
              /\ screen'[c].view =
                    IF faults' = faults /\ ReadsUnverified(c) THEN "verify" ELSE "login"
      ]_vars

\* two texts that differ at most in letter case
SameButCase(a, b) ==
    /\ Len(a) = Len(b)
    /\ \A i \in 1..Len(a) : LowerChar(a[i]) = LowerChar(b[i])

\* C24: the identifiers of two typed e-mails are equal exactly when the
\* e-mails differ at most in letter case
C24_IdentifierUnique ==
    \A c, d \in Clients :
        (SanitizeEmail(screen[c].email) = SanitizeEmail(screen[d].email))
           <=> SameButCase(screen[c].email, screen[d].email)

(* ---------------------------- session properties ---------------------- *)
\* C25: once loading has finished, sessionStorage holds a 'user' item exactly
\* when a user is signed in, and the item is that user; a sign-in stores the
\* user it returns, a reload keeps the item, the restore that ends loading
\* makes the stored user the current one, and a logout removes the item
C25_StorageMirrorsSession ==
    [][\A c \in Clients :
        /\ ~isLoading'[c]
              => /\ ("user" \in DOMAIN storage'[c]) <=> (session'[c] # NoSession)
                 /\ session'[c] # NoSession => Parse(storage'[c]["user"]) = session'[c]
        /\ (SignInAnswered(c) /\ session'[c] # NoSession)
              => storage'[c] = SetUserItem([uid |-> UserPath(pc[c].email),
                                            role |-> SignInRole(users[UserPath(pc[c].email)])])
        /\ (~isLoading[c] /\ isLoading'[c]) => storage'[c] = storage[c]
        /\ (isLoading[c] /\ ~isLoading'[c])
              => /\ storage'[c] = storage[c]
                 /\ session'[c] = IF "user" \in DOMAIN storage[c]
                                  THEN Parse(storage[c]["user"]) ELSE NoSession
        /\ (session[c] # NoSession /\ session'[c] = NoSession /\ ~isLoading'[c])
              => storage'[c] = NoStorage
      ]_vars

\* ana's session was restored by a reload on one client (its Auth form was
\* never filled in since), and the other client, loaded, has no user and no
\* item
C25_Witness ==
    \E c, d \in Clients :
        /\ ~isLoading[c]
        /\ session[c].uid = "ana"
        /\ screen[c] = FreshAuth
        /\ storage[c] = SetUserItem(session[c])
        /\ ~isLoading[d]
        /\ session[d] = NoSession
        /\ storage[d] = NoStorage

(* ------------------------------ C26 ----------------------------------- *)
\* the amount a value field shows, in centavos: the number its digits spell
Entered(text) == ParseDigits(OnlyDigits(text))

\* C26: currency normalization at ConfirmPurchase is exact. Whenever an edit
\* of a value input enters an amount of N centavos, the field shows the
\* locale format of N / 100 and handleSubmit's dataToSubmit holds exactly N
\* centavos for it; an edit that leaves no digit empties the field, and
\* dataToSubmit keeps the empty text for it instead of a number. When the
\* modal is submitted, the payload of the PATCH carries, for the value
\* field, the amount the field showed.
C26_CurrencyExact ==
    [][\A c \in Clients :
          /\ \A name \in ValueFields \cap (DOMAIN modalData[c] \cap DOMAIN modalData'[c]) :
                modalData'[c][name] # modalData[c][name]
                => \A value \in Edits(modalData[c][name]) :
                      LET N == Entered(value)
                          dataToSubmit == NormalizePurchase(modalData'[c])
                      IN /\ (OnlyDigits(value) # <<>> /\ modalData'[c][name] = FormatCurrency(N))
                            => dataToSubmit[name] = N
                         /\ (OnlyDigits(value) = <<>> /\ modalData'[c][name] = <<>>)
                            => dataToSubmit[name] = <<>>
          /\ (pc[c] = Idle /\ pc'[c] # Idle /\ pc'[c].op = "confirm")
             => \A name \in ValueFields \cap DOMAIN modalData[c] :
                   /\ modalData[c][name] = FormatCurrency(Entered(modalData[c][name]))
                   /\ pc'[c].payload[name] = Entered(modalData[c][name])
                   /\ pc'[c].purchaseData[name] = Entered(modalData[c][name])]_vars

\* "R$ 21.010,12" was typed into the value field of the product request and
\* the PATCH in flight carries 1234.56 for it
C26_Witness ==
    \E c \in Clients :
       /\ pc[c] # Idle
       /\ pc[c].op = "confirm"
       /\ "valorProduto" \in DOMAIN modalData[c]
       /\ modalData[c].valorProduto = <<"R", "$", " ", "2", "1", ".", "0", "1", "0", ",", "1", "2">>
       /\ pc[c].payload.valorProduto = 2101012

(* ------------------------------ C27 ----------------------------------- *)
RECURSIVE StoredSum(_, _)
\* the sum of the stored values of the requests of data with a key in ids
StoredSum(data, ids) ==
    IF ids = {} THEN 0
    ELSE LET i == CHOOSE i \in ids : TRUE
         IN ValueOf(data[i]) + StoredSum(data, ids \ {i})

RECURSIVE BarsSum(_)
\* the sum of the bars of a chart
BarsSum(chartData) ==
    IF chartData = <<>> THEN 0
    ELSE chartData[1].value + BarsSum(Tail(chartData))

\* the dashboards page of client c shows its figures
DashboardLoaded(c) ==
    /\ session[c] # NoSession
    /\ view[c] = "dashboards"
    /\ ~dashboard[c].isLoading
    /\ ~dashboard[c].error

\* C27: on a loaded dashboard the total spent is the sum, over the requests
\* of the list with status comprado, of the value stored for each (a request
\* without a value counts 0), and the bars of the chart add up to that total.
C27_TotalSpentIsSum ==
    \A c \in Clients :
       DashboardLoaded(c)
       => /\ dashboard[c].stats.totalSpent
               = StoredSum(requests[c], {i \in DOMAIN requests[c] :
                                            requests[c][i].status = "comprado"})
          /\ BarsSum(dashboard[c].chartData) = dashboard[c].stats.totalSpent

\* the bars of a loaded dashboard add up to the total it shows
C27_BarsAddUp ==
    \A c \in Clients :
       DashboardLoaded(c) => BarsSum(dashboard[c].chartData) = dashboard[c].stats.totalSpent

\* the total is the sum of the stored values whenever no bought request of
\* the list has a value with a fractional part
C27_WholeAmounts ==
    \A c \in Clients :
       (/\ DashboardLoaded(c)
        /\ \A i \in DOMAIN requests[c] :
              requests[c][i].status = "comprado" => ValueOf(requests[c][i]) % 100 = 0)
       => dashboard[c].stats.totalSpent
             = StoredSum(requests[c], {i \in DOMAIN requests[c] :
                                          requests[c][i].status = "comprado"})

(* ------------------------------ C28 ----------------------------------- *)
\* C28: in every state of the store, status and timestamps agree: a pendente
\* request has none of approvedAt, rejectedAt and purchasedAt; an aprovado
\* request has approvedAt; a reprovado request has rejectedAt and a
\* justification field; a comprado request has approvedAt and purchasedAt.
C28_StatusMatchesStamps ==
    \A id \in DOMAIN store :
       LET r == store[id]
       IN /\ r.status = "pendente"
             => DOMAIN r \cap {"approvedAt", "rejectedAt", "purchasedAt"} = {}
          /\ r.status = "aprovado" => "approvedAt" \in DOMAIN r
          /\ r.status = "reprovado" => {"rejectedAt", "justification"} \subseteq DOMAIN r
          /\ r.status = "comprado" => {"approvedAt", "purchasedAt"} \subseteq DOMAIN r

\* a request rejected by one client and then approved by the stale list of
\* the other was bought: its document carries all three stamps
C28_Witness ==
    \E id \in DOMAIN store :
       /\ store[id].status = "comprado"
       /\ {"approvedAt", "rejectedAt", "purchasedAt", "justification"} \subseteq DOMAIN store[id]
       /\ store[id].rejectedAt < store[id].approvedAt
       /\ store[id].approvedAt < store[id].purchasedAt

(* ------------------------------ C29 ----------------------------------- *)
\* the PUT of client c's sign-up is answered in this step
SignUpWrites(c) ==
    /\ pc[c].op = "signup_put"
    /\ pc'[c] # pc[c]

\* C29: SignUp never replaces an existing user record. In any interleaving
\* of sign-ups, when the write of a sign-up is answered and the identifier of
\* its e-mail already has a record, the record keeps its password hash, its
\* verified flag and its role, and the call ends with 'e-mail already in use'.
C29_SignUpNeverReplaces ==
    [][\A c \in Clients :
          SignUpWrites(c)
          => LET u == UserPath(pc[c].email)
             IN accounts[u].exists
                => /\ accounts'[u] = accounts[u]
                   /\ users'[u] = users[u]
                   /\ pc'[c] = Idle
                   /\ screen'[c].error \in {EmailInUse, CreateFailed}]_vars

\* the same with every HTTP call answered: two sign-ups race
C29_RaceOnly ==
    [][\A c \in Clients :
          (SignUpWrites(c) /\ faults' = 0)
          => LET u == UserPath(pc[c].email)
             IN accounts[u].exists
                => /\ accounts'[u] = accounts[u]
                   /\ users'[u] = users[u]]_vars

(* ------------------------------ C30 ----------------------------------- *)
\* the views a role is permitted to reach
Permitted(role) ==
    IF role = "admin" THEN Views
    ELSE IF role = "aprovador" THEN {"formulario", "aprovar_compras"}
    ELSE IF role = "comprador" THEN {"formulario", "setor_compras"}
    ELSE {"formulario"}

\* C30: in every state of a signed-in session the active view is one the
\* role of the session's user is permitted to reach: user (or no role) the
\* form only, aprovador the form and the approval page, comprador the form
\* and the purchasing page, admin every view.
C30_ViewPermitted ==
    \A c \in Clients :
       session[c] # NoSession => view[c] \in Permitted(session[c].role)

\* a buyer is on the purchasing page while an admin is on the admin page
C30_Witness ==
    \E c, d \in Clients :
       /\ session[c] # NoSession /\ session[c].role = "comprador" /\ view[c] = "setor_compras"
       /\ session[d] # NoSession /\ session[d].role = "admin" /\ view[d] = "admin"

====
